---- MODULE Spec2Model ----
(***************************************************************************)
(* A model of the Discord API documentation explorer: the spec normalizer  *)
(* of src/lib/openapi.ts (parseEndpoints, getCategoryFromPath,             *)
(* groupByCategory, resolveRef), the loader of src/app/page.tsx and the    *)
(* parts of the rendering layer that consume them.                         *)
(*                                                                         *)
(* JavaScript strings are sequences of one-character strings, so that      *)
(* includes, split, startsWith and localeCompare are computed character by *)
(* character as the library computes them.                                 *)
(***************************************************************************)
EXTENDS Integers, Sequences, FiniteSets, TLC

VARIABLES
    catPc,      \* getCategoryFromPath: "called" until it returns, then "returned"
    catPath,    \* its path argument
    catTags,    \* its tags argument: <<>> is undefined, <<list>> a tag list
    catResult,  \* its return value
    spec,       \* Home: the fetched document (OpenAPISpec)
    endpoints,  \* Home: the value of parseEndpoints(spec)
    categories, \* Home: the value of groupByCategory(endpoints)
    normPc,     \* Home: "start", "parsed", "grouped", or "threw"
    stableSpec, \* two-document mode: the second document (spec is the preview one)
    docsRequested, \* the number of documents the loader is asked for, 1 or 2
    served,     \* the document each URL serves
    fetchSt,    \* each fetch: "pending", "body" (an ok response whose body is being
                \* parsed), "parsed", "notok", "rejected", "badjson", or "unrequested"
    firstFailed, \* the fetch that failed first, 0 while none has
    loadPc,     \* the load as Home awaits it: "pending", "loaded" or "failed"
    errorsRaised, \* the number of errors the load has thrown to Home
    view,       \* what Home returned: "none" yet, "docs" or "error"
    refSpec,    \* resolveRef: its spec argument
    refParts,   \* the keys k1..kn its ref argument was written from
    ref,        \* resolveRef: its ref argument
    refResult,  \* resolveRef: its return value
    refPc,      \* resolveRef: "called" until it returns, then "returned"
    page,       \* DocsPage: its state (search, selectedMethods, selectedCategory,
                \* selectedAvailability, expandedEndpoint)
    cards,      \* the state of each mounted EndpointCard, by React key
    tryIt,      \* by React key: the try-it requests of the mounted card that are in
                \* flight, and the number in flight of cards since unmounted
    userActions, \* the number of user actions so far
    urlEndpoint, \* buildUrl: the endpoint of the card
    urlParams,  \* buildUrl: the requestParams of the card
    urlResult,  \* buildUrl: its return value
    urlPc,      \* buildUrl: "called" until it returns, then "returned"
    slugText,   \* slugify: its text argument
    slugResults, \* what slugify returned for it, and then for what it returned
    tryEndpoint, \* copyCurl and sendRequest: the endpoint of the card
    tryCard,    \* the state of the card as they run
    trySent,    \* <<>>, or the arguments sendRequest called fetch with
    tryCopied,  \* <<>>, or the string copyCurl wrote to the clipboard
    visible,    \* DocsPage: filteredCategories, the value of the useMemo
    svSpec,     \* SchemaView: its spec prop
    svMounted,  \* the SchemaView instances that have rendered, by their place in
                \* the tree: the schema and depth props, the expanded state and
                \* what the instance returned
    svPending,  \* the instances React has yet to render, the next one first
    svClicks    \* the number of clicks on the buttons of the tree so far

catVars == <<catPc, catPath, catTags, catResult>>

normVars == <<spec, endpoints, categories, normPc, stableSpec>>

loadVars == <<docsRequested, served, fetchSt, firstFailed, loadPc, errorsRaised, view>>

refVars == <<refSpec, refParts, ref, refResult, refPc>>

uiVars == <<page, cards, tryIt, userActions>>

urlVars == <<urlEndpoint, urlParams, urlResult, urlPc>>

slugVars == <<slugText, slugResults>>

tryVars == <<tryEndpoint, tryCard, trySent, tryCopied>>

filterVars == <<visible>>

svVars == <<svSpec, svMounted, svPending, svClicks>>

vars == <<catVars, normVars, refVars, loadVars, uiVars, urlVars,
          slugVars, tryVars, filterVars, svVars>>

(***************************************************************************)
(* Bounds                                                                  *)
(***************************************************************************)
\* the number of path pieces appended to a resource prefix
MaxPathTokens == 2
\* the number of paths of a document
MaxPaths == 2
\* the length of an endpoint list handed to groupByCategory
MaxEndpoints == 3
\* the number of keys a reference string is written from
MaxRefParts == 3
\* the number of actions of the user on the page
MaxUserActions == 5
\* the length of a parameter value the user types
MaxValueLen == 2
\* the length of a text handed to slugify
MaxSlugLen == 3
\* the number of clicks on the buttons of a schema tree
MaxClicks == 2
\* the depth prop at which the model stops rendering: more than an instance has
\* after MaxClicks clicks on the schemas below, where a reference is at most one
\* level below the schema that holds it
MaxDepth == 2 * MaxClicks + 5

(***************************************************************************)
(* String primitives of the JavaScript runtime                             *)
(***************************************************************************)
\* String.prototype.includes
Includes(s, t) ==
    \E i \in 0..(Len(s) - Len(t)) : SubSeq(s, i + 1, i + Len(t)) = t

\* String.prototype.startsWith
StartsWith(s, t) ==
    /\ Len(t) <= Len(s)
    /\ \A j \in 1..Len(t) : s[j] = t[j]

\* the index of the first occurrence of the character c in s, 0 when absent
IndexOfChar(s, c) ==
    IF \E i \in 1..Len(s) : s[i] = c
    THEN CHOOSE i \in 1..Len(s) : s[i] = c /\ \A k \in 1..(i - 1) : s[k] # c
    ELSE 0

RECURSIVE Split(_, _)
\* String.prototype.split on a one-character separator
Split(s, c) ==
    LET i == IndexOfChar(s, c)
    IN  IF i = 0 THEN <<s>>
        ELSE <<SubSeq(s, 1, i - 1)>> \o Split(SubSeq(s, i + 1, Len(s)), c)

\* Array.prototype.filter(Boolean) on an array of strings: the empty string is falsy
FilterBoolean(parts) == SelectSeq(parts, LAMBDA p : Len(p) > 0)

RECURSIVE Flatten(_)
\* the concatenation of a sequence of strings
Flatten(ss) == IF ss = <<>> THEN <<>> ELSE Head(ss) \o Flatten(Tail(ss))

(***************************************************************************)
(* The string literals of getCategoryFromPath (src/lib/openapi.ts:44-88)   *)
(***************************************************************************)
\* the substrings the rules look for
P ==
    [ applications |-> <<"/", "a", "p", "p", "l", "i", "c", "a", "t", "i", "o", "n", "s">>,
      commands |-> <<"/", "c", "o", "m", "m", "a", "n", "d", "s">>,
      entitlements |-> <<"/", "e", "n", "t", "i", "t", "l", "e", "m", "e", "n", "t", "s">>,
      emojis |-> <<"/", "e", "m", "o", "j", "i", "s">>,
      role_connections |-> <<"/", "r", "o", "l", "e", "-", "c", "o", "n", "n", "e", "c", "t", "i", "o", "n", "s">>,
      channels |-> <<"/", "c", "h", "a", "n", "n", "e", "l", "s">>,
      messages |-> <<"/", "m", "e", "s", "s", "a", "g", "e", "s">>,
      invites |-> <<"/", "i", "n", "v", "i", "t", "e", "s">>,
      pins |-> <<"/", "p", "i", "n", "s">>,
      webhooks |-> <<"/", "w", "e", "b", "h", "o", "o", "k", "s">>,
      threads |-> <<"/", "t", "h", "r", "e", "a", "d", "s">>,
      reactions |-> <<"/", "r", "e", "a", "c", "t", "i", "o", "n", "s">>,
      guilds |-> <<"/", "g", "u", "i", "l", "d", "s">>,
      members |-> <<"/", "m", "e", "m", "b", "e", "r", "s">>,
      roles |-> <<"/", "r", "o", "l", "e", "s">>,
      bans |-> <<"/", "b", "a", "n", "s">>,
      stickers |-> <<"/", "s", "t", "i", "c", "k", "e", "r", "s">>,
      scheduled_events |-> <<"/", "s", "c", "h", "e", "d", "u", "l", "e", "d", "-", "e", "v", "e", "n", "t", "s">>,
      audit_log |-> <<"/", "a", "u", "d", "i", "t", "-", "l", "o", "g">>,
      integrations |-> <<"/", "i", "n", "t", "e", "g", "r", "a", "t", "i", "o", "n", "s">>,
      voice_states |-> <<"/", "v", "o", "i", "c", "e", "-", "s", "t", "a", "t", "e", "s">>,
      onboarding |-> <<"/", "o", "n", "b", "o", "a", "r", "d", "i", "n", "g">>,
      welcome_screen |-> <<"/", "w", "e", "l", "c", "o", "m", "e", "-", "s", "c", "r", "e", "e", "n">>,
      users |-> <<"/", "u", "s", "e", "r", "s">>,
      voice |-> <<"/", "v", "o", "i", "c", "e">>,
      stage_instances |-> <<"/", "s", "t", "a", "g", "e", "-", "i", "n", "s", "t", "a", "n", "c", "e", "s">>,
      oauth2 |-> <<"/", "o", "a", "u", "t", "h", "2">>,
      gateway |-> <<"/", "g", "a", "t", "e", "w", "a", "y">>,
      interactions |-> <<"/", "i", "n", "t", "e", "r", "a", "c", "t", "i", "o", "n", "s">> ]

\* the categories the rules return
C ==
    [ Application_Commands |-> <<"A", "p", "p", "l", "i", "c", "a", "t", "i", "o", "n", " ", "C", "o", "m", "m", "a", "n", "d", "s">>,
      Monetization |-> <<"M", "o", "n", "e", "t", "i", "z", "a", "t", "i", "o", "n">>,
      Application_Emojis |-> <<"A", "p", "p", "l", "i", "c", "a", "t", "i", "o", "n", " ", "E", "m", "o", "j", "i", "s">>,
      Role_Connections |-> <<"R", "o", "l", "e", " ", "C", "o", "n", "n", "e", "c", "t", "i", "o", "n", "s">>,
      Applications |-> <<"A", "p", "p", "l", "i", "c", "a", "t", "i", "o", "n", "s">>,
      Messages |-> <<"M", "e", "s", "s", "a", "g", "e", "s">>,
      Invites |-> <<"I", "n", "v", "i", "t", "e", "s">>,
      Pins |-> <<"P", "i", "n", "s">>,
      Webhooks |-> <<"W", "e", "b", "h", "o", "o", "k", "s">>,
      Threads |-> <<"T", "h", "r", "e", "a", "d", "s">>,
      Reactions |-> <<"R", "e", "a", "c", "t", "i", "o", "n", "s">>,
      Channels |-> <<"C", "h", "a", "n", "n", "e", "l", "s">>,
      Guild_Members |-> <<"G", "u", "i", "l", "d", " ", "M", "e", "m", "b", "e", "r", "s">>,
      Roles |-> <<"R", "o", "l", "e", "s">>,
      Moderation |-> <<"M", "o", "d", "e", "r", "a", "t", "i", "o", "n">>,
      Emojis |-> <<"E", "m", "o", "j", "i", "s">>,
      Stickers |-> <<"S", "t", "i", "c", "k", "e", "r", "s">>,
      Scheduled_Events |-> <<"S", "c", "h", "e", "d", "u", "l", "e", "d", " ", "E", "v", "e", "n", "t", "s">>,
      Audit_Log |-> <<"A", "u", "d", "i", "t", " ", "L", "o", "g">>,
      Integrations |-> <<"I", "n", "t", "e", "g", "r", "a", "t", "i", "o", "n", "s">>,
      Voice |-> <<"V", "o", "i", "c", "e">>,
      Onboarding |-> <<"O", "n", "b", "o", "a", "r", "d", "i", "n", "g">>,
      Welcome_Screen |-> <<"W", "e", "l", "c", "o", "m", "e", " ", "S", "c", "r", "e", "e", "n">>,
      Guilds |-> <<"G", "u", "i", "l", "d", "s">>,
      Users |-> <<"U", "s", "e", "r", "s">>,
      Stage_Instances |-> <<"S", "t", "a", "g", "e", " ", "I", "n", "s", "t", "a", "n", "c", "e", "s">>,
      OAuth2 |-> <<"O", "A", "u", "t", "h", "2">>,
      Gateway |-> <<"G", "a", "t", "e", "w", "a", "y">>,
      Interactions |-> <<"I", "n", "t", "e", "r", "a", "c", "t", "i", "o", "n", "s">>,
      General |-> <<"G", "e", "n", "e", "r", "a", "l">> ]

(***************************************************************************)
(* getCategoryFromPath (src/lib/openapi.ts:36-89)                          *)
(***************************************************************************)
\* the /applications group, lines 45-49
ApplicationsCategory(path) ==
    IF Includes(path, P.commands) THEN C.Application_Commands
    ELSE IF Includes(path, P.entitlements) THEN C.Monetization
    ELSE IF Includes(path, P.emojis) THEN C.Application_Emojis
    ELSE IF Includes(path, P.role_connections) THEN C.Role_Connections
    ELSE C.Applications

\* the /channels group, lines 53-59
ChannelsCategory(path) ==
    IF Includes(path, P.messages) THEN C.Messages
    ELSE IF Includes(path, P.invites) THEN C.Invites
    ELSE IF Includes(path, P.pins) THEN C.Pins
    ELSE IF Includes(path, P.webhooks) THEN C.Webhooks
    ELSE IF Includes(path, P.threads) THEN C.Threads
    ELSE IF Includes(path, P.reactions) THEN C.Reactions
    ELSE C.Channels

\* GuildsCategory with /roles tried before /members
GuildsCategory_RolesFirst(path) ==
    IF Includes(path, P.roles) THEN C.Roles
    ELSE IF Includes(path, P.members) THEN C.Guild_Members
    ELSE IF Includes(path, P.bans) THEN C.Moderation
    ELSE IF Includes(path, P.emojis) THEN C.Emojis
    ELSE IF Includes(path, P.stickers) THEN C.Stickers
    ELSE IF Includes(path, P.scheduled_events) THEN C.Scheduled_Events
    ELSE IF Includes(path, P.audit_log) THEN C.Audit_Log
    ELSE IF Includes(path, P.integrations) THEN C.Integrations
    ELSE IF Includes(path, P.webhooks) THEN C.Webhooks
    ELSE IF Includes(path, P.voice_states) THEN C.Voice
    ELSE IF Includes(path, P.onboarding) THEN C.Onboarding
    ELSE IF Includes(path, P.welcome_screen) THEN C.Welcome_Screen
    ELSE C.Guilds

\* the /guilds group, lines 63-75
GuildsCategory(path) ==
    IF Includes(path, P.members) THEN C.Guild_Members
    ELSE IF Includes(path, P.roles) THEN C.Roles
    ELSE IF Includes(path, P.bans) THEN C.Moderation
    ELSE IF Includes(path, P.emojis) THEN C.Emojis
    ELSE IF Includes(path, P.stickers) THEN C.Stickers
    ELSE IF Includes(path, P.scheduled_events) THEN C.Scheduled_Events
    ELSE IF Includes(path, P.audit_log) THEN C.Audit_Log
    ELSE IF Includes(path, P.integrations) THEN C.Integrations
    ELSE IF Includes(path, P.webhooks) THEN C.Webhooks
    ELSE IF Includes(path, P.voice_states) THEN C.Voice
    ELSE IF Includes(path, P.onboarding) THEN C.Onboarding
    ELSE IF Includes(path, P.welcome_screen) THEN C.Welcome_Screen
    ELSE C.Guilds

\* FallbackCategory without the filter(Boolean) of line 42
FallbackCategory_NoFilter(path) ==
    LET segments == Split(path, "/")
    IN  IF Len(segments) > 0 /\ Len(segments[1]) > 0 THEN segments[1]
        ELSE C.General

\* the fallback of line 88: segments[0] || 'General'
FallbackCategory(path) ==
    LET segments == FilterBoolean(Split(path, "/"))
    IN  IF Len(segments) > 0 /\ Len(segments[1]) > 0 THEN segments[1]
        ELSE C.General

\* the top-level rules, lines 78-88
TopLevelCategory(path) ==
    IF Includes(path, P.users) THEN C.Users
    ELSE IF Includes(path, P.voice) THEN C.Voice
    ELSE IF Includes(path, P.webhooks) THEN C.Webhooks
    ELSE IF Includes(path, P.invites) THEN C.Invites
    ELSE IF Includes(path, P.stickers) THEN C.Stickers
    ELSE IF Includes(path, P.stage_instances) THEN C.Stage_Instances
    ELSE IF Includes(path, P.oauth2) THEN C.OAuth2
    ELSE IF Includes(path, P.gateway) THEN C.Gateway
    ELSE IF Includes(path, P.interactions) THEN C.Interactions
    ELSE FallbackCategory(path)

\* CategoryFromPathRules with the /channels group tried before /applications
CategoryFromPathRules_ChannelsFirst(path) ==
    IF Includes(path, P.channels) THEN ChannelsCategory(path)
    ELSE IF Includes(path, P.applications) THEN ApplicationsCategory(path)
    ELSE IF Includes(path, P.guilds) THEN GuildsCategory(path)
    ELSE TopLevelCategory(path)

\* the path rules, lines 42-88, tried once the tags have decided nothing
CategoryFromPathRules(path) ==
    IF Includes(path, P.applications) THEN ApplicationsCategory(path)
    ELSE IF Includes(path, P.channels) THEN ChannelsCategory(path)
    ELSE IF Includes(path, P.guilds) THEN GuildsCategory(path)
    ELSE TopLevelCategory(path)

\* getCategoryFromPath with tags.length > 1 for tags.length > 0
getCategoryFromPath_OffByOne(path, tags) ==
    IF tags # <<>> /\ Len(tags[1]) > 1 THEN tags[1][1]
    ELSE CategoryFromPathRules(path)

\* tags is <<>> for undefined and <<list>> for a tag list
getCategoryFromPath(path, tags) ==
    IF tags # <<>> /\ Len(tags[1]) > 0 THEN tags[1][1]
    ELSE CategoryFromPathRules(path)

(***************************************************************************)
(* Case conversion and collation of the JavaScript runtime                 *)
(***************************************************************************)
LowerCaseLetters == <<"a", "b", "c", "d", "e", "f", "g", "h", "i", "j", "k", "l", "m", "n", "o", "p", "q", "r", "s", "t", "u", "v", "w", "x", "y", "z">>
UpperCaseLetters == <<"A", "B", "C", "D", "E", "F", "G", "H", "I", "J", "K", "L", "M", "N", "O", "P", "Q", "R", "S", "T", "U", "V", "W", "X", "Y", "Z">>

\* the position of the character c in the sequence s, 0 when absent
Position(s, c) == IndexOfChar(s, c)

UpperChar(c) ==
    LET i == Position(LowerCaseLetters, c)
    IN  IF i = 0 THEN c ELSE UpperCaseLetters[i]

LowerChar(c) ==
    LET i == Position(UpperCaseLetters, c)
    IN  IF i = 0 THEN c ELSE LowerCaseLetters[i]

\* String.prototype.toUpperCase
ToUpperCase(s) == [i \in 1..Len(s) |-> UpperChar(s[i])]

\* a comparison that keeps the case of letters
ToLowerCase_AsIs(s) == s

\* String.prototype.toLowerCase
ToLowerCase(s) == [i \in 1..Len(s) |-> LowerChar(s[i])]

\* the primary order of the characters under the default collation: space,
\* punctuation, digits, letters without regard to case
CollationOrder == <<" ", "_", "-", "{", "}", "@", "/", "0", "1", "2", "3", "4", "5", "6", "7", "8", "9", "a", "b", "c", "d", "e", "f", "g", "h", "i", "j", "k", "l", "m", "n", "o", "p", "q", "r", "s", "t", "u", "v", "w", "x", "y", "z">>

PrimaryWeight(c) == Position(CollationOrder, LowerChar(c))

\* lower case sorts before upper case when nothing else tells two strings apart
CaseWeight(c) == IF Position(UpperCaseLetters, c) # 0 THEN 1 ELSE 0

RECURSIVE CompareWeights(_, _, _)
\* the sign of the lexicographic comparison of two sequences of weights from
\* position i on
CompareWeights(a, b, i) ==
    IF i > Len(a) /\ i > Len(b) THEN 0
    ELSE IF i > Len(a) THEN -1
    ELSE IF i > Len(b) THEN 1
    ELSE IF a[i] < b[i] THEN -1
    ELSE IF a[i] > b[i] THEN 1
    ELSE CompareWeights(a, b, i + 1)

\* String.prototype.localeCompare: negative, zero or positive
LocaleCompare(a, b) ==
    LET primary == CompareWeights([i \in 1..Len(a) |-> PrimaryWeight(a[i])],
                                  [i \in 1..Len(b) |-> PrimaryWeight(b[i])], 1)
    IN  IF primary # 0 THEN primary
        ELSE CompareWeights([i \in 1..Len(a) |-> CaseWeight(a[i])],
                            [i \in 1..Len(b) |-> CaseWeight(b[i])], 1)

(***************************************************************************)
(* Documents (OpenAPISpec, PathItem, Operation: src/lib/openapi.ts:160-209)*)
(***************************************************************************)
\* the keys of a path item that parseEndpoints reads (line 17)
M ==
    [ get |-> <<"g", "e", "t">>,
      post |-> <<"p", "o", "s", "t">>,
      put |-> <<"p", "u", "t">>,
      delete |-> <<"d", "e", "l", "e", "t", "e">>,
      patch |-> <<"p", "a", "t", "c", "h">>,
      options |-> <<"o", "p", "t", "i", "o", "n", "s">>,
      head |-> <<"h", "e", "a", "d">> ]
K_trace == <<"t", "r", "a", "c", "e">>
K_parameters == <<"p", "a", "r", "a", "m", "e", "t", "e", "r", "s">>

\* JSON values found under the keys of a path item.  kind is "undefined" for a key
\* the object lacks, "null" for JSON null, "operation" for an Operation object and
\* "other" for any other truthy value (the parameters array); tags is <<>> when the
\* object has no tags and <<list>> when it has
Undefined == [kind |-> "undefined", tags |-> <<>>]
JsonNull == [kind |-> "null", tags |-> <<>>]
OtherValue == [kind |-> "other", tags |-> <<>>]
Operation(tags) == [kind |-> "operation", tags |-> tags]

\* a JavaScript value is truthy unless it is undefined, null, false, 0 or ""
Truthy_NotUndefined(v) == v.kind # "undefined"

Truthy(v) == v.kind \notin {"undefined", "null"}

\* pathItem[key] on an object: undefined for a key it lacks
Member(pathItem, key) ==
    IF key \in DOMAIN pathItem.members THEN pathItem.members[key] ELSE Undefined

(***************************************************************************)
(* parseEndpoints (src/lib/openapi.ts:13-34)                               *)
(***************************************************************************)
\* line 17
methods == <<M.get, M.post, M.put, M.delete, M.patch, M.options, M.head>>

\* lines 19-30: the records one entry of spec.paths contributes
EndpointsOfPath(path, pathItem) ==
    Flatten([i \in 1..Len(methods) |->
        LET operation == Member(pathItem, methods[i])
        IN  IF Truthy(operation)
            THEN << [path |-> path,
                     method |-> ToUpperCase(methods[i]),
                     operation |-> operation,
                     category |-> getCategoryFromPath(path, operation.tags)] >>
            ELSE <<>>])

\* the call: threw is TRUE when pathItem[method] is evaluated on a null path item
\* (a TypeError), and endpoints is the array returned otherwise
parseEndpoints(doc) ==
    IF \E i \in 1..Len(doc.paths) : doc.paths[i].pathItem.kind = "null"
    THEN [threw |-> TRUE, endpoints |-> <<>>]
    ELSE [threw |-> FALSE,
          endpoints |-> Flatten([i \in 1..Len(doc.paths) |->
              EndpointsOfPath(doc.paths[i].path, doc.paths[i].pathItem)])]

(***************************************************************************)
(* groupByCategory (src/lib/openapi.ts:91-103)                             *)
(***************************************************************************)
\* the position of the key name in the Map, 0 when absent
MapIndex(categoryMap, name) ==
    IF \E i \in 1..Len(categoryMap) : categoryMap[i].name = name
    THEN CHOOSE i \in 1..Len(categoryMap) : categoryMap[i].name = name
    ELSE 0

\* the loop putting each endpoint before those its category already has
AddEndpoint_Prepends(categoryMap, endpoint) ==
    LET i == MapIndex(categoryMap, endpoint.category)
        existing == IF i # 0 THEN categoryMap[i].endpoints ELSE <<>>
        entry == [name |-> endpoint.category, endpoints |-> <<endpoint>> \o existing]
    IN  IF i # 0 THEN [categoryMap EXCEPT ![i] = entry]
        ELSE Append(categoryMap, entry)

\* lines 95-97: one iteration of the loop
AddEndpoint(categoryMap, endpoint) ==
    LET i == MapIndex(categoryMap, endpoint.category)
        existing == IF i # 0 THEN categoryMap[i].endpoints ELSE <<>>
        entry == [name |-> endpoint.category, endpoints |-> Append(existing, endpoint)]
    IN  IF i # 0 THEN [categoryMap EXCEPT ![i] = entry]
        ELSE Append(categoryMap, entry)

RECURSIVE BuildMap(_, _)
\* lines 92-98: the Map after the loop, its entries in insertion order
BuildMap(categoryMap, list) ==
    IF list = <<>> THEN categoryMap
    ELSE BuildMap(AddEndpoint(categoryMap, Head(list)), Tail(list))

RECURSIVE InsertSorted(_, _)
\* x put after every element of the sorted array that does not compare above it
InsertSorted(sorted, x) ==
    IF sorted = <<>> THEN <<x>>
    ELSE IF LocaleCompare(Head(sorted).name, x.name) <= 0
         THEN <<Head(sorted)>> \o InsertSorted(Tail(sorted), x)
         ELSE <<x>> \o sorted

RECURSIVE SortByName(_)
\* line 102: Array.prototype.sort, a stable sort, with the comparator
\* (a, b) => a.name.localeCompare(b.name)
SortByName(array) ==
    IF array = <<>> THEN <<>>
    ELSE InsertSorted(SortByName(SubSeq(array, 1, Len(array) - 1)), array[Len(array)])

\* groupByCategory without the sort of line 102
groupByCategory_Unsorted(list) == BuildMap(<<>>, list)

groupByCategory(list) == SortByName(BuildMap(<<>>, list))

(***************************************************************************)
(* parseEndpointsWithAvailability (two-document mode)                      *)
(***************************************************************************)
\* step 1: the (method, path) keys of the operations of a document
OperationKeys(doc) ==
    { <<ToUpperCase(methods[x[2]]), doc.paths[x[1]].path>> :
        x \in { y \in (1..Len(doc.paths)) \X (1..Len(methods)) :
                  Truthy(Member(doc.paths[y[1]].pathItem, methods[y[2]])) } }

PathsOf(doc) == [i \in 1..Len(doc.paths) |-> doc.paths[i].path]

\* step 2: the paths of either document, those of the preview document first
UnionOfPaths(previewSpec, stable) ==
    PathsOf(previewSpec)
        \o SelectSeq(PathsOf(stable),
                     LAMBDA path : \A i \in 1..Len(previewSpec.paths) :
                                       previewSpec.paths[i].path # path)

\* the operation of a document under a path and a method, undefined when the
\* document lacks the path or the method
OperationAt(doc, path, method) ==
    IF \E i \in 1..Len(doc.paths) : doc.paths[i].path = path
    THEN Member(doc.paths[CHOOSE i \in 1..Len(doc.paths) : doc.paths[i].path = path].pathItem,
                method)
    ELSE Undefined

\* step 4
AvailabilityOf(key, previewKeys, stableKeys) ==
    IF key \in previewKeys /\ key \in stableKeys THEN "both"
    ELSE IF key \in previewKeys THEN "preview-only"
    ELSE "stable-only"

\* steps 3 to 5 for one path
EndpointsOfPathInBoth(path, previewSpec, stable, previewKeys, stableKeys) ==
    Flatten([m \in 1..Len(methods) |->
        LET inPreview == OperationAt(previewSpec, path, methods[m])
            inStable == OperationAt(stable, path, methods[m])
            operation == IF Truthy(inPreview) THEN inPreview ELSE inStable
        IN  IF ~Truthy(inPreview) /\ ~Truthy(inStable) THEN <<>>
            ELSE << [path |-> path,
                     method |-> ToUpperCase(methods[m]),
                     operation |-> operation,
                     category |-> getCategoryFromPath(path, operation.tags),
                     availability |->
                         AvailabilityOf(<<ToUpperCase(methods[m]), path>>,
                                        previewKeys, stableKeys)] >>])

parseEndpointsWithAvailability(previewSpec, stable) ==
    LET previewKeys == OperationKeys(previewSpec)
        stableKeys == OperationKeys(stable)
        allPaths == UnionOfPaths(previewSpec, stable)
    IN  Flatten([i \in 1..Len(allPaths) |->
            EndpointsOfPathInBoth(allPaths[i], previewSpec, stable,
                                  previewKeys, stableKeys)])

(***************************************************************************)
(* Inputs of parseEndpoints and groupByCategory                            *)
(***************************************************************************)
D_users_me == <<"/", "u", "s", "e", "r", "s", "/", "@", "m", "e">>
D_guilds_bans == <<"/", "g", "u", "i", "l", "d", "s", "/", "{", "i", "d", "}", "/", "b", "a", "n", "s">>
D_a == <<"/", "a">>
T_Foo == <<"F", "o", "o">>
T_Bar == <<"B", "a", "r">>

OpUntagged == Operation(<<>>)
OpTagged == Operation(<< <<T_Foo>> >>)

PathItemObject(members) == [kind |-> "object", members |-> members]
NullPathItem == [kind |-> "null", members |-> <<>>]

ItemKeys ==
    {M.get, M.post, M.put, M.delete, M.patch, M.options, M.head, K_trace, K_parameters}

\* the path items of the documents: a null item, an empty one, one per key, a null
\* and a tagged operation, several operations, and every key at once
PathItems ==
    { NullPathItem, PathItemObject(<<>>) }
    \cup { PathItemObject(k :> (IF k = K_parameters THEN OtherValue ELSE OpUntagged)) :
              k \in ItemKeys }
    \cup { PathItemObject(M.get :> JsonNull),
           PathItemObject(M.get :> OpTagged),
           PathItemObject(M.get :> OpUntagged @@ M.post :> OpTagged),
           PathItemObject(M.put :> OpUntagged @@ M.delete :> JsonNull @@ M.patch :> OpTagged),
           PathItemObject([k \in ItemKeys |->
               IF k = K_parameters THEN OtherValue ELSE OpUntagged]) }

DocPaths == {D_users_me, D_guilds_bans, D_a}

EmptyDoc == [paths |-> <<>>]

\* spec.paths as the sequence Object.entries gives: the paths are distinct
DocsOver(pathItems) ==
    UNION { { [paths |-> ps] :
                ps \in { s \in [1..n -> [path : DocPaths, pathItem : pathItems]] :
                            \A i, j \in 1..n : i # j => s[i].path # s[j].path } } :
            n \in 0..MaxPaths }

Docs == DocsOver(PathItems)

\* the path items of the documents of two-document mode
PathItemsOfPairs ==
    { PathItemObject(M.get :> OpUntagged @@ M.post :> OpTagged),
      PathItemObject(M.get :> JsonNull @@ M.post :> OpUntagged @@ K_trace :> OpUntagged) }

DocsOfPairs == DocsOver(PathItemsOfPairs)

\* the documents the two URLs of Home can serve: an empty one, one with
\* operations, one with a null path item
DocsServed ==
    { EmptyDoc,
      [paths |-> << [path |-> D_users_me,
                     pathItem |-> PathItemObject(M.get :> OpUntagged @@ M.post :> OpTagged)],
                    [path |-> D_a, pathItem |-> PathItemObject(M.get :> OpUntagged)] >>],
      [paths |-> << [path |-> D_a, pathItem |-> PathItemObject(M.post :> OpUntagged)],
                    [path |-> D_guilds_bans, pathItem |-> NullPathItem] >>] }

\* the endpoints lists are made of
EndpointPool ==
    { [path |-> path, method |-> ToUpperCase(m), operation |-> op,
       category |-> getCategoryFromPath(path, op.tags)] :
        path \in DocPaths, m \in {M.get, M.post}, op \in {OpUntagged, OpTagged} }

EndpointLists == UNION { [1..n -> EndpointPool] : n \in 0..MaxEndpoints }

(***************************************************************************)
(* resolveRef (src/lib/openapi.ts:105-120)                                 *)
(***************************************************************************)
\* String.prototype.replace with a string pattern: the first occurrence only
ReplaceFirst(s, pattern, replacement) ==
    IF Includes(s, pattern)
    THEN LET i == CHOOSE k \in 0..(Len(s) - Len(pattern)) :
                    /\ SubSeq(s, k + 1, k + Len(pattern)) = pattern
                    /\ \A h \in 0..(k - 1) : SubSeq(s, h + 1, h + Len(pattern)) # pattern
         IN  SubSeq(s, 1, i) \o replacement \o SubSeq(s, i + Len(pattern) + 1, Len(s))
    ELSE s

\* the keys of documents and of the objects of the runtime
R ==
    [ components |-> <<"c", "o", "m", "p", "o", "n", "e", "n", "t", "s">>,
      schemas |-> <<"s", "c", "h", "e", "m", "a", "s">>,
      User |-> <<"U", "s", "e", "r">>,
      paths |-> <<"p", "a", "t", "h", "s">>,
      constructor |-> <<"c", "o", "n", "s", "t", "r", "u", "c", "t", "o", "r">>,
      toString |-> <<"t", "o", "S", "t", "r", "i", "n", "g">>,
      proto |-> <<"_", "_", "p", "r", "o", "t", "o", "_", "_">>,
      length |-> <<"l", "e", "n", "g", "t", "h">>,
      empty |-> <<>> ]

\* A document is a heap: nodes[id] is a JSON value, kind "object", "array", "null"
\* or "string" ("absent" for an id the document does not use), and members maps
\* the keys of an object to the ids of their values.  Node 0 is the document.
\* A value of the walk is a node of the document, null, or a property the
\* runtime's prototypes supply.
NodeValue(id) == [tag |-> "node", id |-> id, key |-> <<>>]
NullValue == [tag |-> "null", id |-> 0 - 1, key |-> <<>>]
InheritedValue(key) == [tag |-> "inherited", id |-> 0 - 1, key |-> key]

\* the properties every object inherits from Object.prototype
ObjectPrototypeKeys == {R.constructor, R.toString, R.proto}

\* typeof current === 'object' with current truthy (line 112): objects and arrays
\* of the document, and Object.prototype, the value of __proto__
IsObject(doc, current) ==
    \/ current.tag = "node" /\ doc.nodes[current.id].kind \in {"object", "array"}
    \/ current.tag = "inherited" /\ current.key = R.proto

\* the own keys of an object of the document
OwnKeys(doc, id) == DOMAIN doc.nodes[id].members

\* part in current (line 112): own and inherited properties alike
In(doc, part, current) ==
    IF current.tag = "node"
    THEN \/ part \in OwnKeys(doc, current.id)
         \/ part \in ObjectPrototypeKeys
         \/ doc.nodes[current.id].kind = "array" /\ part = R.length
    ELSE part \in ObjectPrototypeKeys

\* current[part] (line 113)
Get(doc, current, part) ==
    IF current.tag = "node" /\ part \in OwnKeys(doc, current.id)
    THEN NodeValue(doc.nodes[current.id].members[part])
    ELSE IF current.tag = "inherited" /\ part = R.proto
    THEN NullValue
    ELSE InheritedValue(part)

RECURSIVE Walk(_, _, _)
\* lines 111-119: the loop over parts from current on
Walk(doc, current, parts) ==
    IF parts = <<>> THEN current
    ELSE IF IsObject(doc, current) /\ In(doc, Head(parts), current)
         THEN Walk(doc, Get(doc, current, Head(parts)), Tail(parts))
         ELSE NullValue

HashSlash == <<"#", "/">>

\* resolveRef that stops at the object holding the last key
resolveRef_DropsLastPart(doc, refString) ==
    IF ~StartsWith(refString, HashSlash) THEN NullValue
    ELSE LET parts == Split(ReplaceFirst(refString, HashSlash, <<>>), "/")
         IN  Walk(doc, NodeValue(0), SubSeq(parts, 1, Len(parts) - 1))

resolveRef(doc, refString) ==
    IF ~StartsWith(refString, HashSlash) THEN NullValue
    ELSE Walk(doc, NodeValue(0), Split(ReplaceFirst(refString, HashSlash, <<>>), "/"))

(***************************************************************************)
(* Inputs of resolveRef                                                    *)
(***************************************************************************)
NodeKinds == {"absent", "null", "string", "array", "object"}

Node(kind, members) == [kind |-> kind, members |-> members]

\* the key when the value under it is present
KeyIfPresent(key, id, kind) == IF kind = "absent" THEN <<>> ELSE key :> id

\* the document {paths: {}, components: {schemas: {User: ...}}} cut short where
\* components, schemas or User is absent or is not an object
DocOfKinds(k1, k2, k3) ==
    [nodes |->
        <<Node(k1, KeyIfPresent(R.schemas, 2, k2)),
          Node(k2, KeyIfPresent(R.User, 3, k3)),
          Node(k3, <<>>),
          Node("object", <<>>)>>
        @@ (0 :> Node("object", (R.paths :> 4) @@ KeyIfPresent(R.components, 1, k1)))]

\* only an object has keys
RefDocs ==
    { DocOfKinds(k[1], k[2], k[3]) :
        k \in { t \in NodeKinds \X NodeKinds \X NodeKinds :
                  /\ t[1] # "object" => t[2] = "absent"
                  /\ t[2] # "object" => t[3] = "absent" } }

RECURSIVE Join(_, _)
\* Array.prototype.join
Join(parts, separator) ==
    IF parts = <<>> THEN <<>>
    ELSE IF Len(parts) = 1 THEN parts[1]
    ELSE parts[1] \o separator \o Join(Tail(parts), separator)

\* what a reference string starts with
RefPrefixes == {HashSlash, <<>>, <<"#">>, <<"/">>}

\* the keys a reference string names
RefPartKeys ==
    {R.components, R.schemas, R.User, R.paths, R.constructor, R.proto, R.empty}

RefPartSeqs == UNION { [1..n -> RefPartKeys] : n \in 0..MaxRefParts }

(***************************************************************************)
(* Inputs of getCategoryFromPath                                           *)
(***************************************************************************)
T_slash == <<"/">>
T_id == <<"/", "{", "i", "d", "}">>
T_x == <<"x">>

\* the pieces paths are made of: every keyword of the rules, a parameter
\* segment, an empty segment and a piece without a leading slash
PathTokens ==
    { P.applications, P.commands, P.entitlements, P.emojis, P.role_connections,
      P.channels, P.messages, P.invites, P.pins, P.webhooks, P.threads, P.reactions,
      P.guilds, P.members, P.roles, P.bans, P.stickers, P.scheduled_events,
      P.audit_log, P.integrations, P.voice_states, P.onboarding, P.welcome_screen,
      P.users, P.voice, P.stage_instances, P.oauth2, P.gateway, P.interactions,
      T_slash, T_id, T_x }

\* the resource a path starts with
PathPrefixes ==
    { <<>>, P.applications \o T_id, P.channels \o T_id, P.guilds \o T_id }

TokenSeqs(n) == UNION { [1..k -> PathTokens] : k \in 0..n }

Paths == { prefix \o Flatten(ts) : prefix \in PathPrefixes, ts \in TokenSeqs(MaxPathTokens) }

\* operation.tags: undefined, an empty list, one tag, two tags
TagArgs == { <<>>, << <<>> >>, << <<T_Foo>> >>, << <<T_Bar, T_Foo>> >> }

(***************************************************************************)
(* The call getCategoryFromPath(path, operation.tags) of parseEndpoints    *)
(***************************************************************************)
GetCategory ==
    /\ catPc = "called"
    /\ catResult' = getCategoryFromPath(catPath, catTags)
    /\ catPc' = "returned"
    /\ UNCHANGED <<catPath, catTags>>

(***************************************************************************)
(* Home (src/app/page.tsx:7-8): parseEndpoints, then groupByCategory       *)
(***************************************************************************)
ParseEndpoints ==
    /\ normPc = "start"
    /\ docsRequested = 1
    /\ LET r == parseEndpoints(spec)
       IN  IF r.threw
           THEN /\ normPc' = "threw"
                /\ UNCHANGED endpoints
           ELSE /\ normPc' = "parsed"
                /\ endpoints' = r.endpoints
    /\ UNCHANGED <<spec, categories, stableSpec>>

\* two-document mode
ParseEndpointsWithAvailability ==
    /\ normPc = "start"
    /\ docsRequested = 2
    /\ endpoints' = parseEndpointsWithAvailability(spec, stableSpec)
    /\ normPc' = "parsed"
    /\ UNCHANGED <<spec, categories, stableSpec>>

\* groupByCategory that leaves its argument in the order of its result
GroupByCategory_ReordersItsInput ==
    /\ normPc = "parsed"
    /\ categories' = groupByCategory(endpoints)
    /\ endpoints' = Flatten([i \in 1..Len(groupByCategory(endpoints)) |->
                                groupByCategory(endpoints)[i].endpoints])
    /\ normPc' = "grouped"
    /\ UNCHANGED <<spec, stableSpec>>

GroupByCategory ==
    /\ normPc = "parsed"
    /\ categories' = groupByCategory(endpoints)
    /\ normPc' = "grouped"
    /\ UNCHANGED <<spec, endpoints, stableSpec>>

\* Home run once more (src/app/page.tsx:7-8): parseEndpoints on the document it
\* was given before, groupByCategory on the list it was given before
NormalizeAgain ==
    /\ normPc = "grouped"
    /\ docsRequested = 1
    /\ ~parseEndpoints(spec).threw
    /\ endpoints' = parseEndpoints(spec).endpoints
    /\ categories' = groupByCategory(endpoints)
    /\ normPc' = "again"
    /\ UNCHANGED <<spec, stableSpec>>

ResolveRef ==
    /\ refPc = "called"
    /\ refResult' = resolveRef(refSpec, ref)
    /\ refPc' = "returned"
    /\ UNCHANGED <<refSpec, refParts, ref>>

(***************************************************************************)
(* The loader: fetchOpenAPISpec (src/lib/openapi.ts:5-11) as Home awaits   *)
(* it (src/app/page.tsx:4-36)                                              *)
(***************************************************************************)
Fetches == 1..docsRequested

\* the fetch or the parse of its body is still under way
Outstanding(st) == st \in {"pending", "body"}

\* fetchOpenAPISpec with a rejected response.json() taken for a document
FetchFailed_JsonUnchecked(st) == st \in {"rejected", "notok"}

\* fetchOpenAPISpec with the check of response.ok left out
FetchFailed_StatusUnchecked(st) == st \in {"rejected", "badjson"}

\* fetchOpenAPISpec throws: fetch rejected (line 6), the status is not a success
\* (lines 7-9), or response.json() rejected (line 10)
FetchFailed(st) == st \in {"rejected", "notok", "badjson"}

NoteFailure(i) == firstFailed' = IF firstFailed = 0 THEN i ELSE firstFailed

\* line 6: fetch resolves with a response, of a success status or not
FetchResponds(i) ==
    /\ i \in Fetches
    /\ fetchSt[i] = "pending"
    /\ \E ok \in BOOLEAN :
          /\ fetchSt' = [fetchSt EXCEPT ![i] = IF ok THEN "body" ELSE "notok"]
          /\ IF ok THEN UNCHANGED firstFailed ELSE NoteFailure(i)
    /\ UNCHANGED <<docsRequested, served, loadPc, errorsRaised, view>>

\* line 6: fetch rejects (a network error)
FetchRejects(i) ==
    /\ i \in Fetches
    /\ fetchSt[i] = "pending"
    /\ fetchSt' = [fetchSt EXCEPT ![i] = "rejected"]
    /\ NoteFailure(i)
    /\ UNCHANGED <<docsRequested, served, loadPc, errorsRaised, view>>

\* line 10: response.json() resolves with the document
JsonResolves(i) ==
    /\ i \in Fetches
    /\ fetchSt[i] = "body"
    /\ fetchSt' = [fetchSt EXCEPT ![i] = "parsed"]
    /\ UNCHANGED <<docsRequested, served, firstFailed, loadPc, errorsRaised, view>>

\* line 10: response.json() rejects (the body is not JSON)
JsonRejects(i) ==
    /\ i \in Fetches
    /\ fetchSt[i] = "body"
    /\ fetchSt' = [fetchSt EXCEPT ![i] = "badjson"]
    /\ NoteFailure(i)
    /\ UNCHANGED <<docsRequested, served, loadPc, errorsRaised, view>>

\* page.tsx line 6: await fetchOpenAPISpec() returns the document or throws
AwaitFetch ==
    /\ docsRequested = 1
    /\ loadPc = "pending"
    /\ ~Outstanding(fetchSt[1])
    /\ IF FetchFailed(fetchSt[1])
       THEN /\ loadPc' = "failed"
            /\ errorsRaised' = errorsRaised + 1
            /\ UNCHANGED normVars
       ELSE /\ loadPc' = "loaded"
            /\ spec' = served[1]
            /\ normPc' = "start"
            /\ UNCHANGED <<errorsRaised, endpoints, categories, stableSpec>>
    /\ UNCHANGED <<docsRequested, served, fetchSt, firstFailed, view>>

\* two-document mode: the two fetches are awaited jointly; the load is pending
\* while either is outstanding and fails with one error when either has failed
AwaitBothFetches ==
    /\ docsRequested = 2
    /\ loadPc = "pending"
    /\ \A i \in Fetches : ~Outstanding(fetchSt[i])
    /\ IF \E i \in Fetches : FetchFailed(fetchSt[i])
       THEN /\ loadPc' = "failed"
            /\ errorsRaised' = errorsRaised + 1
            /\ UNCHANGED normVars
       ELSE /\ loadPc' = "loaded"
            /\ spec' = served[1]
            /\ stableSpec' = served[2]
            /\ normPc' = "start"
            /\ UNCHANGED <<errorsRaised, endpoints, categories>>
    /\ UNCHANGED <<docsRequested, served, fetchSt, firstFailed, view>>

\* page.tsx line 10: the docs UI, once both normalizer calls have returned
RenderDocs ==
    /\ view = "none"
    /\ loadPc = "loaded"
    /\ normPc = "grouped"
    /\ view' = "docs"
    /\ UNCHANGED <<docsRequested, served, fetchSt, firstFailed, loadPc, errorsRaised>>

\* page.tsx lines 11-35: the catch block, for whatever the try block threw
RenderError ==
    /\ view = "none"
    /\ (loadPc = "failed" \/ normPc = "threw")
    /\ view' = "error"
    /\ UNCHANGED <<docsRequested, served, fetchSt, firstFailed, loadPc, errorsRaised>>

(***************************************************************************)
(* slugify (src/lib/openapi.ts:127-132)                                    *)
(***************************************************************************)
\* [a-z0-9]
IsSlugChar(c) ==
    \/ Position(LowerCaseLetters, c) # 0
    \/ c \in {"0", "1", "2", "3", "4", "5", "6", "7", "8", "9"}

\* .replace(/[^a-z0-9]/g, '-'): every other character becomes a hyphen of its own
ReplaceRuns_EachCharacter(s, inRun) ==
    [i \in 1..Len(s) |-> IF IsSlugChar(s[i]) THEN s[i] ELSE "-"]

RECURSIVE ReplaceRuns(_, _)
\* .replace(/[^a-z0-9]+/g, '-'): every run of other characters becomes one hyphen
ReplaceRuns(s, inRun) ==
    IF s = <<>> THEN <<>>
    ELSE IF IsSlugChar(Head(s)) THEN <<Head(s)>> \o ReplaceRuns(Tail(s), FALSE)
    ELSE IF inRun THEN ReplaceRuns(Tail(s), TRUE)
    ELSE <<"-">> \o ReplaceRuns(Tail(s), TRUE)

slugify(text) ==
    LET s == ReplaceRuns(ToLowerCase(text), FALSE)
        \* .replace(/(^-|-$)/g, ''): a leading and a trailing hyphen are removed
        t == IF s # <<>> /\ Head(s) = "-" THEN Tail(s) ELSE s
    IN  IF t # <<>> /\ t[Len(t)] = "-" THEN SubSeq(t, 1, Len(t) - 1) ELSE t

\* slugify called on slugText, and then on what it returned
Slugify ==
    /\ Len(slugResults) < 2
    /\ slugResults' = Append(slugResults,
                             slugify(IF slugResults = <<>> THEN slugText
                                     ELSE slugResults[1]))
    /\ UNCHANGED slugText

\* the texts slugify is called with: lower and upper case letters, a digit,
\* hyphens, other punctuation and a blank
SlugTexts ==
    UNION { [1..n -> {"a", "B", "7", "-", "/", " ", "_"}] : n \in 0..MaxSlugLen }

(***************************************************************************)
(* DocsPage (src/components/DocsPage.tsx:22-450)                           *)
(***************************************************************************)
\* the endpoints of the categories prop, in the order they are rendered
AllEndpoints(cats) == Flatten([i \in 1..Len(cats) |-> cats[i].endpoints])

\* the React key of a card, `${endpoint.method}-${endpoint.path}` (line 387)
CardKey(ep) == <<ep.method, ep.path>>

\* the id of a card in expandedEndpoint,
\* `${endpoint.method}-${slugify(endpoint.path)}` (lines 390 and 392)
ExpandId(ep) == ep.method \o <<"-">> \o slugify(ep.path)

\* the endpoint of the categories prop with this React key
EndpointOf(cats, k) ==
    LET all == AllEndpoints(cats)
    IN  all[CHOOSE i \in 1..Len(all) : CardKey(all[i]) = k]

\* endpoint.availability: undefined on a record parseEndpoints made
AvailabilityOfEndpoint(ep) ==
    IF "availability" \in DOMAIN ep THEN ep.availability ELSE "undefined"

\* lines 48-64
filteredCategories(cats, pg) ==
    LET needle == ToLowerCase(pg.search)
        \* operation.summary?.toLowerCase().includes(...): undefined, which is
        \* falsy, when the operation lacks the field
        OptionalIncludes(ep, field) ==
            /\ field \in DOMAIN ep.operation
            /\ Includes(ToLowerCase(ep.operation[field]), needle)
        matchesSearch(ep) ==
            \/ pg.search = <<>>
            \/ Includes(ToLowerCase(ep.path), needle)
            \/ OptionalIncludes(ep, "summary")
            \/ OptionalIncludes(ep, "operationId")
        matchesMethod(ep) ==
            pg.selectedMethods = {} \/ ep.method \in pg.selectedMethods
        matchesAvailability(ep) ==
            \/ pg.selectedAvailability = "null"
            \/ AvailabilityOfEndpoint(ep) = pg.selectedAvailability
        \* lines 50-51
        ofCategory ==
            SelectSeq(cats, LAMBDA c :
                pg.selectedCategory = <<>> \/ c.name = pg.selectedCategory)
    IN  SelectSeq(
            [i \in 1..Len(ofCategory) |->
                [name |-> ofCategory[i].name,
                 endpoints |->
                     SelectSeq(ofCategory[i].endpoints,
                               LAMBDA ep : /\ matchesSearch(ep)
                                           /\ matchesMethod(ep)
                                           /\ matchesAvailability(ep))]],
            LAMBDA cat : Len(cat.endpoints) > 0)

\* the keys of the EndpointCards DocsPage renders (lines 372-397)
RenderedKeys(cats, pg) ==
    LET shown == AllEndpoints(filteredCategories(cats, pg))
    IN  { CardKey(shown[i]) : i \in 1..Len(shown) }

\* line 390
IsExpanded(ep, pg) == pg.expandedEndpoint = <<ExpandId(ep)>>

\* the badge of the card header (lines 587-595)
Badge(ep) ==
    IF AvailabilityOfEndpoint(ep) # "both"
    THEN IF AvailabilityOfEndpoint(ep) = "preview-only" THEN "PREVIEW" ELSE "STABLE ONLY"
    ELSE "none"

\* lines 23-27: the state DocsPage mounts with; null is <<>> for a string,
\* the expanded id is <<id>>
InitialPage ==
    [search |-> <<>>, selectedMethods |-> {}, selectedCategory |-> <<>>,
     selectedAvailability |-> "null", expandedEndpoint |-> <<>>]

(***************************************************************************)
(* EndpointCard (src/components/DocsPage.tsx:464-844)                      *)
(***************************************************************************)
NoResponse == [status |-> 0 - 1, data |-> "none"]

\* lines 466-472: the state a card mounts with
InitialCard ==
    [activeTab |-> "params", requestParams |-> <<>>, requestBody |-> <<>>,
     authToken |-> <<>>, response |-> NoResponse, loading |-> FALSE, copied |-> FALSE]

\* requestParams[name], the empty string when it has no such key
ParamValue(requestParams, name) ==
    IF name \in DOMAIN requestParams THEN requestParams[name] ELSE <<>>

\* lines 474-475
ParametersIn(operation, place) ==
    IF "parameters" \in DOMAIN operation
    THEN SelectSeq(operation.parameters, LAMBDA p : p.in = place)
    ELSE <<>>

\* line 479
HasBody(operation) == "requestBody" \in DOMAIN operation /\ operation.requestBody

\* lines 481-482
HasResponses(operation) == "responses" \in DOMAIN operation /\ operation.responses

\* a state setter of one card replacing the state of every card
UpdateCard_OfEveryCard(cs, k, card) == [j \in DOMAIN cs |-> card]

\* a state setter of the card with key k: the state of that instance only
UpdateCard(cs, k, card) == [cs EXCEPT ![k] = card]

\* the Send button never disabled
SendDisabled_Never(card) == FALSE

\* line 803: disabled={loading}
SendDisabled(card) == card.loading

\* the catch block leaving the loading flag set
Failed_StaysLoading(card) ==
    [card EXCEPT !.response = [status |-> 0, data |-> "error"]]

\* lines 546-554: the catch block, then finally
Failed(card) ==
    [card EXCEPT !.response = [status |-> 0, data |-> "error"], !.loading = FALSE]

\* a body that is not JSON taken for a failed request
Responded_StrictJson(card, status, isJson) ==
    IF isJson
    THEN [card EXCEPT !.response = [status |-> status, data |-> "json"],
                      !.loading = FALSE]
    ELSE Failed(card)

\* the response recorded without the finally block
Responded_StaysLoading(card, status, isJson) ==
    [card EXCEPT !.response = [status |-> status,
                               data |-> IF isJson THEN "json" ELSE "null"]]

\* lines 540-545 and 553: res.json().catch(() => null), setResponse, finally
Responded(card, status, isJson) ==
    [card EXCEPT !.response = [status |-> status,
                               data |-> IF isJson THEN "json" ELSE "null"],
                 !.loading = FALSE]

\* React keeps the state of the cards that stay rendered, drops the state of
\* those no longer rendered, and mounts the newly rendered ones afresh
Reconcile(cs, keys) ==
    [k \in keys |-> IF k \in DOMAIN cs THEN cs[k] ELSE InitialCard]

\* the requests of a card that is unmounted lose their card
Orphan(reqs, keys) ==
    [k \in DOMAIN reqs |->
        IF k \in keys THEN reqs[k]
        ELSE [inFlight |-> <<>>, orphans |-> reqs[k].orphans + Len(reqs[k].inFlight)]]

\* the user acts while the bound on the number of actions allows
UserActs ==
    /\ userActions < MaxUserActions
    /\ userActions' = userActions + 1

\* a change of the page state: the filtered list is recomputed and the cards
\* reconciled with it
SetPage(pg) ==
    /\ UserActs
    /\ page' = pg
    /\ cards' = Reconcile(cards, RenderedKeys(categories, pg))
    /\ tryIt' = Orphan(tryIt, RenderedKeys(categories, pg))

\* lines 129, 134, 185
SetSearch(text) == SetPage([page EXCEPT !.search = text])

\* lines 74-81
ToggleMethod(method) ==
    SetPage([page EXCEPT !.selectedMethods =
                IF method \in @ THEN @ \ {method} ELSE @ \cup {method}])

\* lines 193 and 307: e.target.value || null
SetSelectedCategory(name) == SetPage([page EXCEPT !.selectedCategory = name])

\* lines 324 and 334
ToggleAvailability(a) ==
    SetPage([page EXCEPT !.selectedAvailability = IF @ = a THEN "null" ELSE a])

\* lines 83-88
ClearFilters == SetPage([page EXCEPT !.search = <<>>, !.selectedMethods = {},
                                     !.selectedCategory = <<>>,
                                     !.selectedAvailability = "null"])

\* lines 391-394, from the header button of a rendered card (line 580)
OnToggle(k) ==
    /\ k \in DOMAIN cards
    /\ LET id == <<ExpandId(EndpointOf(categories, k))>>
       IN  SetPage([page EXCEPT !.expandedEndpoint = IF @ = id THEN <<>> ELSE id])

\* the card is rendered and its expanded content is (line 611)
Open(k) == k \in DOMAIN cards /\ IsExpanded(EndpointOf(categories, k), page)

\* the Try It tab of the card is shown (line 703)
TryTab(k) == Open(k) /\ cards[k].activeTab = "try"

\* a user action on the card with key k that sets its state to card
CardActs(k, card) ==
    /\ UserActs
    /\ cards' = UpdateCard(cards, k, card)
    /\ UNCHANGED <<page, tryIt>>

\* lines 629-647: the tab buttons the card shows
SetActiveTab(k, tab) ==
    /\ Open(k)
    /\ LET operation == EndpointOf(categories, k).operation
       IN  \/ tab = "try"
           \/ tab = "body" /\ HasBody(operation)
           \/ tab = "responses" /\ HasResponses(operation)
           \/ tab = "params"
                /\ ParametersIn(operation, "path") \o ParametersIn(operation, "query") # <<>>
    /\ CardActs(k, [cards[k] EXCEPT !.activeTab = tab])

\* lines 733 and 759
SetRequestParams(k, name, value) ==
    /\ TryTab(k)
    /\ LET operation == EndpointOf(categories, k).operation
           declared == ParametersIn(operation, "path") \o ParametersIn(operation, "query")
       IN  \E i \in 1..Len(declared) : declared[i].name = name
    /\ CardActs(k, [cards[k] EXCEPT !.requestParams =
                        (name :> value) @@ cards[k].requestParams])

\* line 777
SetRequestBody(k, text) ==
    /\ TryTab(k)
    /\ HasBody(EndpointOf(categories, k).operation)
    /\ CardActs(k, [cards[k] EXCEPT !.requestBody = text])

\* line 714
SetAuthToken(k, text) ==
    /\ TryTab(k)
    /\ CardActs(k, [cards[k] EXCEPT !.authToken = text])

\* lines 504-517, from the cURL button (line 793)
CopyCurl(k) ==
    /\ TryTab(k)
    /\ CardActs(k, [cards[k] EXCEPT !.copied = TRUE])

\* line 516: the timer of copyCurl
CopiedTimeout(k) ==
    /\ k \in DOMAIN cards
    /\ cards[k].copied
    /\ cards' = UpdateCard(cards, k, [cards[k] EXCEPT !.copied = FALSE])
    /\ UNCHANGED <<page, tryIt, userActions>>

\* lines 520-538, from the Send button (lines 801-804): up to the await of fetch
SendRequest(k) ==
    /\ TryTab(k)
    /\ ~SendDisabled(cards[k])
    /\ UserActs
    \* lines 521-522
    /\ cards' = UpdateCard(cards, k, [cards[k] EXCEPT !.loading = TRUE,
                                                      !.response = NoResponse])
    /\ tryIt' = [tryIt EXCEPT ![k].inFlight =
                    Append(@, [phase |-> "fetching", status |-> 0])]
    /\ UNCHANGED page

\* line 534: fetch resolves with a response of some status
TryItResponds(k, i, status) ==
    /\ i \in 1..Len(tryIt[k].inFlight)
    /\ tryIt[k].inFlight[i].phase = "fetching"
    /\ tryIt' = [tryIt EXCEPT ![k].inFlight[i] = [phase |-> "reading", status |-> status]]
    /\ UNCHANGED <<page, cards, userActions>>

\* lines 540-545 and 553: the body is read, as JSON or not
TryItBodyRead(k, i, isJson) ==
    /\ i \in 1..Len(tryIt[k].inFlight)
    /\ tryIt[k].inFlight[i].phase = "reading"
    /\ cards' = UpdateCard(cards, k,
                           Responded(cards[k], tryIt[k].inFlight[i].status, isJson))
    /\ tryIt' = [tryIt EXCEPT ![k].inFlight =
                    SubSeq(@, 1, i - 1) \o SubSeq(@, i + 1, Len(@))]
    /\ UNCHANGED <<page, userActions>>

\* lines 546-554: fetch rejects
TryItRejects(k, i) ==
    /\ i \in 1..Len(tryIt[k].inFlight)
    /\ tryIt[k].inFlight[i].phase = "fetching"
    /\ cards' = UpdateCard(cards, k, Failed(cards[k]))
    /\ tryIt' = [tryIt EXCEPT ![k].inFlight =
                    SubSeq(@, 1, i - 1) \o SubSeq(@, i + 1, Len(@))]
    /\ UNCHANGED <<page, userActions>>

\* a request whose card was unmounted ends: its state setters reach no card
OrphanSettles(k) ==
    /\ tryIt[k].orphans > 0
    /\ tryIt' = [tryIt EXCEPT ![k].orphans = @ - 1]
    /\ UNCHANGED <<page, cards, userActions>>

(***************************************************************************)
(* buildUrl (src/components/DocsPage.tsx:485-501)                          *)
(***************************************************************************)
\* encodeURIComponent that escapes nothing
encodeURIComponent_AsIs(s) == s

\* encodeURIComponent: letters, digits and - _ . ! ~ * ' ( ) stay, every other
\* character the model writes becomes its escape sequence
encodeURIComponent(s) ==
    LET PercentEncoded ==
            (" " :> <<"%", "2", "0">>) @@ ("$" :> <<"%", "2", "4">>)
            @@ ("%" :> <<"%", "2", "5">>) @@ ("&" :> <<"%", "2", "6">>)
            @@ ("/" :> <<"%", "2", "F">>) @@ ("=" :> <<"%", "3", "D">>)
            @@ ("?" :> <<"%", "3", "F">>) @@ ("@" :> <<"%", "4", "0">>)
            @@ ("{" :> <<"%", "7", "B">>) @@ ("}" :> <<"%", "7", "D">>)
    IN  Flatten([i \in 1..Len(s) |->
            IF \/ IsSlugChar(LowerChar(s[i]))
               \/ s[i] \in {"-", "_", ".", "!", "~", "*", "'", "(", ")"}
            THEN <<s[i]>>
            ELSE PercentEncoded[s[i]]])

RECURSIVE SubstitutePathParams(_, _, _)
\* lines 487-490: pathParams.forEach; the replacement never holds a `$`, which
\* encodeURIComponent escapes, so String.prototype.replace inserts it as it is
SubstitutePathParams(url, pathParams, requestParams) ==
    IF pathParams = <<>> THEN url
    ELSE LET p == Head(pathParams)
             \* `{${p.name}}`
             Placeholder(name) == <<"{">> \o name \o <<"}">>
             value == IF ParamValue(requestParams, p.name) # <<>>
                      THEN ParamValue(requestParams, p.name)
                      ELSE Placeholder(p.name)
         IN  SubstitutePathParams(
                 ReplaceFirst(url, Placeholder(p.name), encodeURIComponent(value)),
                 Tail(pathParams), requestParams)

buildUrl(path, operation, requestParams) ==
    LET url == SubstitutePathParams(path, ParametersIn(operation, "path"), requestParams)
        \* lines 492-494
        given == SelectSeq(ParametersIn(operation, "query"),
                           LAMBDA p : ParamValue(requestParams, p.name) # <<>>)
        queryParts ==
            [i \in 1..Len(given) |->
                given[i].name \o <<"=">>
                    \o encodeURIComponent(ParamValue(requestParams, given[i].name))]
    IN  IF Len(queryParts) > 0
        THEN url \o <<"?">> \o Join(queryParts, <<"&">>)
        ELSE url

\* the card of urlEndpoint builds its URL from urlParams
BuildUrl ==
    /\ urlPc = "called"
    /\ urlResult' = buildUrl(urlEndpoint.path, urlEndpoint.operation, urlParams)
    /\ urlPc' = "returned"
    /\ UNCHANGED <<urlEndpoint, urlParams>>

(***************************************************************************)
(* copyCurl and sendRequest (src/components/DocsPage.tsx:504-538)          *)
(***************************************************************************)
\* the string literals of copyCurl and sendRequest (lines 20 and 505-531)
Q ==
    [ base |->
          <<"h", "t", "t", "p", "s", ":", "/", "/", "d", "i", "s", "c",
            "o", "r", "d", ".", "c", "o", "m", "/", "a", "p", "i", "/",
            "v", "1", "0">>,
      curl |->
          <<"c", "u", "r", "l", " ", "-", "X", " ">>,
      open |->
          <<" ", "\"">>,
      close |->
          <<"\"">>,
      header |->
          <<" ", "\\", "\n", " ", " ", "-", "H", " ", "\"">>,
      authorization |->
          <<"A", "u", "t", "h", "o", "r", "i", "z", "a", "t", "i", "o",
            "n">>,
      contentType |->
          <<"C", "o", "n", "t", "e", "n", "t", "-", "T", "y", "p", "e">>,
      sep |->
          <<":", " ">>,
      json |->
          <<"a", "p", "p", "l", "i", "c", "a", "t", "i", "o", "n", "/",
            "j", "s", "o", "n">>,
      data |->
          <<" ", "\\", "\n", " ", " ", "-", "d", " ", "'">>,
      quote |->
          <<"'">> ]

\* copyCurl with the body between double quotes
copyCurl_DoubleQuotesBody(endpoint, card) ==
    Q.curl \o endpoint.method \o Q.open
        \o Q.base \o buildUrl(endpoint.path, endpoint.operation, card.requestParams)
        \o Q.close
        \o (IF card.authToken # <<>>
            THEN Q.header \o Q.authorization \o Q.sep \o card.authToken \o Q.close
            ELSE <<>>)
        \o Q.header \o Q.contentType \o Q.sep \o Q.json \o Q.close
        \o (IF HasBody(endpoint.operation) /\ card.requestBody # <<>>
            THEN Q.data \o card.requestBody \o Q.close
            ELSE <<>>)

\* lines 505-513: the string copyCurl writes to the clipboard
copyCurl(endpoint, card) ==
    Q.curl \o endpoint.method \o Q.open
        \o Q.base \o buildUrl(endpoint.path, endpoint.operation, card.requestParams)
        \o Q.close
        \o (IF card.authToken # <<>>
            THEN Q.header \o Q.authorization \o Q.sep \o card.authToken \o Q.close
            ELSE <<>>)
        \o Q.header \o Q.contentType \o Q.sep \o Q.json \o Q.close
        \o (IF HasBody(endpoint.operation) /\ card.requestBody # <<>>
            THEN Q.data \o card.requestBody \o Q.quote
            ELSE <<>>)

\* sendRequest sending what is typed as the body whatever the operation declares
sendRequest_BodyUndeclared(endpoint, card) ==
    [ url |-> Q.base \o buildUrl(endpoint.path, endpoint.operation, card.requestParams),
      method |-> endpoint.method,
      headers |-> (Q.contentType :> Q.json)
                    @@ (IF card.authToken # <<>>
                        THEN Q.authorization :> card.authToken
                        ELSE <<>>),
      body |-> IF card.requestBody # <<>> THEN <<card.requestBody>> ELSE <<>> ]

\* lines 526-538: the arguments sendRequest calls fetch with; body is <<>> for
\* undefined and <<text>> for a string
sendRequest(endpoint, card) ==
    [ url |-> Q.base \o buildUrl(endpoint.path, endpoint.operation, card.requestParams),
      method |-> endpoint.method,
      headers |-> (Q.contentType :> Q.json)
                    @@ (IF card.authToken # <<>>
                        THEN Q.authorization :> card.authToken
                        ELSE <<>>),
      body |-> IF HasBody(endpoint.operation) /\ card.requestBody # <<>>
               THEN <<card.requestBody>>
               ELSE <<>> ]

\* the cURL button (line 793): copyCurl, lines 504-517
ClickCopyCurl ==
    /\ tryCopied = <<>>
    /\ tryCopied' = <<copyCurl(tryEndpoint, tryCard)>>
    /\ tryCard' = [tryCard EXCEPT !.copied = TRUE]
    /\ UNCHANGED <<tryEndpoint, trySent>>

\* the Send button (lines 801-804): sendRequest up to the await of fetch
ClickSend ==
    /\ trySent = <<>>
    /\ ~SendDisabled(tryCard)
    /\ trySent' = <<sendRequest(tryEndpoint, tryCard)>>
    /\ tryCard' = [tryCard EXCEPT !.loading = TRUE, !.response = NoResponse]
    /\ UNCHANGED <<tryEndpoint, tryCopied>>

(***************************************************************************)
(* SchemaView (src/components/DocsPage.tsx:928-1026)                       *)
(***************************************************************************)
\* the keys SchemaView reads of a schema and the values of type it compares
J ==
    [ ref |-> <<"$", "r", "e", "f">>,
      allOf |-> <<"a", "l", "l", "O", "f">>,
      oneOf |-> <<"o", "n", "e", "O", "f">>,
      anyOf |-> <<"a", "n", "y", "O", "f">>,
      properties |-> <<"p", "r", "o", "p", "e", "r", "t", "i", "e", "s">>,
      items |-> <<"i", "t", "e", "m", "s">>,
      type |-> <<"t", "y", "p", "e">>,
      object |-> <<"o", "b", "j", "e", "c", "t">>,
      array |-> <<"a", "r", "r", "a", "y">>,
      string |-> <<"s", "t", "r", "i", "n", "g">> ]

\* the keys of the elements of an array, in their order
Digits == <<"0", "1", "2">>

\* the names of the properties of the schemas, in the order they are written
PropertyNames == << <<"x">>, <<"y">> >>

\* a value is truthy: an object, an array, a function of the runtime, a string
\* that is not empty
IsTruthy(doc, value) ==
    \/ value.tag = "inherited"
    \/ /\ value.tag = "node"
       /\ \/ doc.nodes[value.id].kind \in {"object", "array"}
          \/ doc.nodes[value.id].kind = "string" /\ doc.nodes[value.id].text # <<>>

\* value[key] of an object, with undefined read as null
Prop(doc, value, key) ==
    IF In(doc, key, value) THEN Get(doc, value, key) ELSE NullValue

\* s.type === t
TypeIs(doc, s, t) ==
    LET type == Prop(doc, s, J.type)
    IN  /\ type.tag = "node"
        /\ doc.nodes[type.id].kind = "string"
        /\ doc.nodes[type.id].text = t

\* a child element <SchemaView schema depth />, with the step that leads to it
Child(via, key, schema, depth) ==
    [step |-> <<via, key>>, schema |-> schema, depth |-> depth]

\* array.map(...): a child for each element, in order
MapItems(doc, array, via, depth) ==
    [i \in 1..Cardinality(DOMAIN doc.nodes[array.id].members) |->
        Child(via, <<Digits[i]>>,
              NodeValue(doc.nodes[array.id].members[<<Digits[i]>>]), depth)]

\* useState that starts every instance expanded
UseStateExpanded_Always(depth) == TRUE

\* line 929: useState(depth < 2), the expanded state a new instance starts with
UseStateExpanded(depth) == depth < 2

\* lines 931-1025: what an instance returns for its props and its state, out the
\* element it renders itself and children the SchemaView elements inside it.
\* 'in' applied to a value that is not an object (line 931) throws a TypeError.
SchemaView(doc, schema, depth, expanded) ==
    IF schema.tag = "node" /\ doc.nodes[schema.id].kind \notin {"object", "array"}
    THEN [out |-> "threw", children |-> <<>>]
    ELSE IF In(doc, J.ref, schema) /\ IsTruthy(doc, Get(doc, schema, J.ref))
    THEN LET resolved == resolveRef(doc, doc.nodes[Get(doc, schema, J.ref).id].text)
         IN  IF ~IsTruthy(doc, resolved)
             THEN [out |-> "Unresolved", children |-> <<>>]
             ELSE [out |-> "button",
                   children |-> IF expanded
                                THEN <<Child(J.ref, <<>>, resolved, depth + 1)>>
                                ELSE <<>>]
    ELSE IF IsTruthy(doc, Prop(doc, schema, J.allOf))
    THEN [out |-> "allOf",
          children |-> MapItems(doc, Prop(doc, schema, J.allOf), J.allOf, depth)]
    ELSE IF IsTruthy(doc, Prop(doc, schema, J.oneOf))
    THEN [out |-> "One of:",
          children |-> MapItems(doc, Prop(doc, schema, J.oneOf), J.oneOf, depth + 1)]
    ELSE IF IsTruthy(doc, Prop(doc, schema, J.anyOf))
    THEN [out |-> "Any of:",
          children |-> MapItems(doc, Prop(doc, schema, J.anyOf), J.anyOf, depth + 1)]
    ELSE IF TypeIs(doc, schema, J.object) \/ IsTruthy(doc, Prop(doc, schema, J.properties))
    THEN LET properties == Prop(doc, schema, J.properties)
             names == IF IsTruthy(doc, properties)
                      THEN SelectSeq(PropertyNames,
                                     LAMBDA name : name \in OwnKeys(doc, properties.id))
                      ELSE <<>>
         IN  [out |-> "properties",
              children |-> [i \in 1..Len(names) |->
                              Child(J.properties, names[i],
                                    Get(doc, properties, names[i]), depth + 1)]]
    ELSE IF TypeIs(doc, schema, J.array) /\ IsTruthy(doc, Prop(doc, schema, J.items))
    THEN [out |-> "array of",
          children |-> <<Child(J.items, <<>>, Prop(doc, schema, J.items), depth + 1)>>]
    ELSE [out |-> "type", children |-> <<>>]

\* the place q of the tree is below the place p
IsBelow(q, p) == Len(q) > Len(p) /\ SubSeq(q, 1, Len(p)) = p

\* the children of the instance at a place, as React has yet to render them
PendingChildren(place, children) ==
    [i \in 1..Len(children) |->
        [place |-> Append(place, children[i].step),
         schema |-> children[i].schema,
         depth |-> children[i].depth]]

\* React renders the next instance of the tree, depth first: its state starts
\* as useState gives it (line 929), it returns its element (lines 931-1025) and
\* its children are rendered after it.  An instance that throws takes the tree
\* with it: no error boundary is above it.
RenderSchemaView ==
    /\ svPending # <<>>
    /\ Head(svPending).depth < MaxDepth
    /\ LET next == Head(svPending)
           expanded == UseStateExpanded(next.depth)
           returned == SchemaView(svSpec, next.schema, next.depth, expanded)
           instance == [schema |-> next.schema, depth |-> next.depth,
                        expanded |-> expanded, out |-> returned.out]
       IN  IF returned.out = "threw"
           THEN /\ svMounted' = (next.place :> instance)
                /\ svPending' = <<>>
           ELSE /\ svMounted' = (next.place :> instance) @@ svMounted
                /\ svPending' = PendingChildren(next.place, returned.children)
                                    \o Tail(svPending)
    /\ UNCHANGED <<svSpec, svClicks>>

\* a click on the button of a reference (line 938): setExpanded(!expanded); the
\* instance renders again, with the child it now shows still to be rendered or
\* with what was below it unmounted
SetExpanded(place) ==
    /\ svPending = <<>>
    /\ svClicks < MaxClicks
    /\ place \in DOMAIN svMounted
    /\ svMounted[place].out = "button"
    /\ LET instance == svMounted[place]
           returned == SchemaView(svSpec, instance.schema, instance.depth,
                                  ~instance.expanded)
       IN  /\ svMounted' = [p \in {q \in DOMAIN svMounted : ~IsBelow(q, place)} |->
                              IF p = place
                              THEN [instance EXCEPT !.expanded = ~instance.expanded]
                              ELSE svMounted[p]]
           /\ svPending' = PendingChildren(place, returned.children)
    /\ svClicks' = svClicks + 1
    /\ UNCHANGED svSpec

(***************************************************************************)
(* Inputs of SchemaView                                                    *)
(***************************************************************************)
StringNode(text) == [kind |-> "string", members |-> <<>>, text |-> text]

ObjectNode(members) == [kind |-> "object", members |-> members, text |-> <<>>]

ArrayNode(first, second) ==
    [kind |-> "array", members |-> (<<Digits[1]>> :> first) @@ (<<Digits[2]>> :> second),
     text |-> <<>>]

\* what the references of the schemas name: the schemas A and B, a key the
\* document does not hold, keys every object inherits, the title (a string),
\* and A without the leading #/
RefTargets ==
    { HashSlash \o <<"A">>, HashSlash \o <<"B">>, HashSlash \o <<"M">>,
      HashSlash \o R.constructor, HashSlash \o R.proto, HashSlash \o <<"T">>, <<"A">> }

SchemaForms == {"ref", "allOf", "oneOf", "anyOf", "properties", "items"}

\* the nodes of the schema at id s: a reference, or a schema that holds the
\* reference in its allOf, oneOf or anyOf next to a string schema, as its
\* property x next to a property y, or as its items
SchemaNodes(s, form, target) ==
    LET id(k) == 10 * s + k
        reference == (id(1) :> ObjectNode(J.ref :> id(2))) @@ (id(2) :> StringNode(target))
        string == (id(3) :> ObjectNode(J.type :> id(4))) @@ (id(4) :> StringNode(J.string))
    IN  IF form = "ref"
        THEN (s :> ObjectNode(J.ref :> id(2))) @@ (id(2) :> StringNode(target))
        ELSE IF form \in {"allOf", "oneOf", "anyOf"}
        THEN (s :> ObjectNode((CASE form = "allOf" -> J.allOf
                                 [] form = "oneOf" -> J.oneOf
                                 [] OTHER -> J.anyOf) :> id(5)))
                @@ (id(5) :> ArrayNode(id(1), id(3))) @@ reference @@ string
        ELSE IF form = "properties"
        THEN (s :> ObjectNode(J.properties :> id(5)))
                @@ (id(5) :> ObjectNode((PropertyNames[1] :> id(1))
                                            @@ (PropertyNames[2] :> id(3))))
                @@ reference @@ string
        ELSE (s :> ObjectNode((J.type :> id(6)) @@ (J.items :> id(1))))
                @@ (id(6) :> StringNode(J.array)) @@ reference

\* the documents {A: schema, B: schema, T: "t"}
SchemaDocs ==
    { [nodes |-> (0 :> ObjectNode((<<"A">> :> 1) @@ (<<"B">> :> 2) @@ (<<"T">> :> 3)))
                    @@ (3 :> StringNode(<<"t">>))
                    @@ SchemaNodes(1, a[1], a[2]) @@ SchemaNodes(2, b[1], b[2])] :
        a \in SchemaForms \X RefTargets,
        b \in SchemaForms \X {HashSlash \o <<"A">>, HashSlash \o <<"B">>} }

(***************************************************************************)
(* Inputs of DocsPage, EndpointCard and buildUrl                           *)
(***************************************************************************)
UiOperation(parameters, requestBody) ==
    [kind |-> "operation", tags |-> <<>>, parameters |-> parameters,
     requestBody |-> requestBody, responses |-> FALSE]

Parameter(name, place) == [name |-> <<name>>, in |-> place]

\* the paths of the endpoints
UiPaths ==
    [ a_b |-> <<"/", "a", "/", "b">>,
      a_B |-> <<"/", "a", "/", "{", "b", "}">>,
      a_B_c_D |-> <<"/", "a", "/", "{", "b", "}", "/", "c", "/", "{", "d", "}">> ]

\* the document DocsPage is rendered from: two GET endpoints whose paths differ
\* in punctuation only, and a POST endpoint with a body
UiDoc ==
    [paths |->
        << [path |-> UiPaths.a_B,
            pathItem |-> PathItemObject(M.get :>
                UiOperation(<<Parameter("b", "path"), Parameter("q", "query")>>, FALSE))],
           [path |-> UiPaths.a_b,
            pathItem |-> PathItemObject(M.get :> UiOperation(<<>>, FALSE))],
           [path |-> D_users_me,
            pathItem |-> PathItemObject(M.post :> UiOperation(<<>>, TRUE))] >>]

\* what the user types and picks, and the statuses the API answers with
UiInputs ==
    [ search |-> {<<>>, <<"U">>},
      methods |-> {ToUpperCase(M.get), ToUpperCase(M.post)},
      categories |-> {<<>>, C.Users},
      availabilities |-> {"preview-only", "stable-only"},
      tabs |-> {"params", "body", "responses", "try"},
      paramNames |-> {<<"b">>, <<"q">>},
      paramValues |-> {<<>>, <<"1">>},
      bodies |-> {<<>>, <<"{", "}">>},
      tokens |-> {<<>>, <<"t">>},
      statuses |-> {200, 404} ]

\* the endpoints buildUrl is called for: path and query parameters in several
\* declaration orders, a header parameter, a path without placeholders
UrlEndpoints ==
    { [path |-> UiPaths.a_B,
       operation |-> UiOperation(<<Parameter("b", "path"), Parameter("q", "query"),
                                   Parameter("r", "query")>>, FALSE)],
      [path |-> UiPaths.a_B_c_D,
       operation |-> UiOperation(<<Parameter("d", "path"), Parameter("q", "query"),
                                   Parameter("b", "path")>>, FALSE)],
      [path |-> UiPaths.a_B,
       operation |-> UiOperation(<<Parameter("r", "query"), Parameter("h", "header"),
                                   Parameter("b", "path"), Parameter("q", "query")>>,
                                 FALSE)],
      [path |-> D_users_me,
       operation |-> UiOperation(<<Parameter("q", "query"), Parameter("r", "query")>>,
                                 TRUE)] }

\* requestParams: for b and for q every string of up to MaxValueLen characters,
\* for b also one that reads like a placeholder, for d and r a short value
UrlRequestParams ==
    LET typed == UNION { [1..n -> {"a", " ", "&"}] : n \in 0..MaxValueLen }
    IN  { (<<"b">> :> vb) @@ (<<"q">> :> vq) @@ (<<"d">> :> vd) @@ (<<"r">> :> vr) :
            vb \in typed \cup {<<"{", "d", "}">>}, vq \in typed,
            vd \in {<<>>, <<"a">>}, vr \in {<<>>, <<"&">>} }

\* the cards the buttons are clicked on: an endpoint with parameters and no
\* body, one with a declared body, one of another method; every typed token and
\* body of up to MaxValueLen characters, quotes and blanks among them
TryEndpoints ==
    { [method |-> ToUpperCase(M.get)] @@ e : e \in {x \in UrlEndpoints : ~HasBody(x.operation)} }
        \cup { [method |-> ToUpperCase(M.post)] @@ e :
                    e \in {x \in UrlEndpoints : HasBody(x.operation)} }

TryCards ==
    LET typed == UNION { [1..n -> {"t", " ", "'"}] : n \in 0..MaxValueLen }
    IN  { [InitialCard EXCEPT !.activeTab = "try", !.requestParams = params,
                              !.requestBody = body, !.authToken = token] :
            params \in {<<>>, (<<"b">> :> <<"a">>) @@ (<<"q">> :> <<" ">>)},
            body \in typed, token \in typed }

\* the render that follows a change of the page state: the useMemo of lines
\* 48-64 recomputes filteredCategories from the categories prop and the new state
UseMemo == visible' = filteredCategories(categories, page')

\* the endpoint lists DocsPage filters: two endpoints of one path and category,
\* one with a summary and one with an operationId, and an endpoint of another
\* category with neither and, as parseEndpoints leaves it, without availability
FilterEndpointLists ==
    LET endpoint(path, method, operation) ==
            [path |-> path, method |-> ToUpperCase(method), operation |-> operation,
             category |-> getCategoryFromPath(path, operation.tags)]
        me == [availability |-> "both"]
                @@ endpoint(D_users_me, M.get,
                            [summary |-> <<"M", "e">>] @@ UiOperation(<<>>, FALSE))
        edit == [availability |-> "preview-only"]
                  @@ endpoint(D_users_me, M.post,
                              [operationId |-> <<"g", "e", "t", "U">>]
                                  @@ UiOperation(<<>>, TRUE))
        other == endpoint(D_a, M.get, UiOperation(<<>>, FALSE))
    IN  { <<me, edit, other>>, <<other, edit, me>>, <<edit, other>>, <<>> }

\* the filter states DocsPage starts from
FilterPages ==
    [ search : {<<>>, <<"M", "E">>, <<"T", "u">>, <<"x">>},
      selectedMethods : SUBSET UiInputs.methods,
      selectedCategory : {<<>>, C.Users},
      selectedAvailability : {"null", "preview-only", "stable-only"},
      expandedEndpoint : {<<>>} ]

(***************************************************************************)
(* Specifications: each initial predicate gives the variables of the       *)
(* operations it does not run their unused values                          *)
(***************************************************************************)
\* getCategoryFromPath on every path and tag list
InitSpecCat ==
    /\ spec = EmptyDoc
    /\ endpoints = <<>>
    /\ categories = <<>>
    /\ normPc = "unused"
    /\ stableSpec = EmptyDoc
    /\ refSpec = DocOfKinds("absent", "absent", "absent")
    /\ refParts = <<>>
    /\ ref = <<>>
    /\ refResult = NullValue
    /\ refPc = "unused"
    /\ docsRequested = 1
    /\ served = <<EmptyDoc, EmptyDoc>>
    /\ fetchSt = <<"unrequested", "unrequested">>
    /\ firstFailed = 0
    /\ loadPc = "unused"
    /\ errorsRaised = 0
    /\ view = "none"
    /\ catPc = "called"
    /\ catPath \in Paths
    /\ catTags \in TagArgs
    /\ catResult = <<>>
    /\ page = InitialPage
    /\ cards = <<>>
    /\ tryIt = <<>>
    /\ userActions = 0
    /\ urlEndpoint = [path |-> <<>>, operation |-> UiOperation(<<>>, FALSE)]
    /\ urlParams = <<>>
    /\ urlResult = <<>>
    /\ urlPc = "unused"
    /\ slugText = <<>>
    /\ slugResults = <<>>
    /\ tryEndpoint = [path |-> <<>>, operation |-> UiOperation(<<>>, FALSE)]
    /\ tryCard = InitialCard
    /\ trySent = <<>>
    /\ tryCopied = <<>>
    /\ visible = <<>>
    /\ svSpec = DocOfKinds("absent", "absent", "absent")
    /\ svMounted = <<>>
    /\ svPending = <<>>
    /\ svClicks = 0

NextCat == GetCategory /\ UNCHANGED <<normVars, refVars, loadVars, uiVars, urlVars,
                                      slugVars, tryVars, filterVars, svVars>>

SpecCat == InitSpecCat /\ [][NextCat]_vars

\* parseEndpoints, then groupByCategory, on every document
InitSpecNorm ==
    /\ catPc = "unused"
    /\ catPath = <<>>
    /\ catTags = <<>>
    /\ catResult = <<>>
    /\ refSpec = DocOfKinds("absent", "absent", "absent")
    /\ refParts = <<>>
    /\ ref = <<>>
    /\ refResult = NullValue
    /\ refPc = "unused"
    /\ docsRequested = 1
    /\ served = <<EmptyDoc, EmptyDoc>>
    /\ fetchSt = <<"unrequested", "unrequested">>
    /\ firstFailed = 0
    /\ loadPc = "unused"
    /\ errorsRaised = 0
    /\ view = "none"
    /\ spec \in Docs
    /\ endpoints = <<>>
    /\ categories = <<>>
    /\ normPc = "start"
    /\ stableSpec = EmptyDoc
    /\ page = InitialPage
    /\ cards = <<>>
    /\ tryIt = <<>>
    /\ userActions = 0
    /\ urlEndpoint = [path |-> <<>>, operation |-> UiOperation(<<>>, FALSE)]
    /\ urlParams = <<>>
    /\ urlResult = <<>>
    /\ urlPc = "unused"
    /\ slugText = <<>>
    /\ slugResults = <<>>
    /\ tryEndpoint = [path |-> <<>>, operation |-> UiOperation(<<>>, FALSE)]
    /\ tryCard = InitialCard
    /\ trySent = <<>>
    /\ tryCopied = <<>>
    /\ visible = <<>>
    /\ svSpec = DocOfKinds("absent", "absent", "absent")
    /\ svMounted = <<>>
    /\ svPending = <<>>
    /\ svClicks = 0

NextNorm ==
    \/ ParseEndpoints /\ UNCHANGED <<catVars, refVars, loadVars, uiVars, urlVars,
                                     slugVars, tryVars, filterVars, svVars>>
    \/ GroupByCategory /\ UNCHANGED <<catVars, refVars, loadVars, uiVars, urlVars,
                                      slugVars, tryVars, filterVars, svVars>>

SpecNorm == InitSpecNorm /\ [][NextNorm]_vars

\* Home, and Home once more on the same document
NextAgain ==
    \/ NextNorm
    \/ NormalizeAgain /\ UNCHANGED <<catVars, refVars, loadVars, uiVars, urlVars,
                                     slugVars, tryVars, filterVars, svVars>>

SpecAgain == InitSpecNorm /\ [][NextAgain]_vars

\* groupByCategory called on a list of its own
InitSpecGroup ==
    /\ catPc = "unused"
    /\ catPath = <<>>
    /\ catTags = <<>>
    /\ catResult = <<>>
    /\ refSpec = DocOfKinds("absent", "absent", "absent")
    /\ refParts = <<>>
    /\ ref = <<>>
    /\ refResult = NullValue
    /\ refPc = "unused"
    /\ docsRequested = 1
    /\ served = <<EmptyDoc, EmptyDoc>>
    /\ fetchSt = <<"unrequested", "unrequested">>
    /\ firstFailed = 0
    /\ loadPc = "unused"
    /\ errorsRaised = 0
    /\ view = "none"
    /\ spec = EmptyDoc
    /\ endpoints \in EndpointLists
    /\ categories = <<>>
    /\ normPc = "parsed"
    /\ stableSpec = EmptyDoc
    /\ page = InitialPage
    /\ cards = <<>>
    /\ tryIt = <<>>
    /\ userActions = 0
    /\ urlEndpoint = [path |-> <<>>, operation |-> UiOperation(<<>>, FALSE)]
    /\ urlParams = <<>>
    /\ urlResult = <<>>
    /\ urlPc = "unused"
    /\ slugText = <<>>
    /\ slugResults = <<>>
    /\ tryEndpoint = [path |-> <<>>, operation |-> UiOperation(<<>>, FALSE)]
    /\ tryCard = InitialCard
    /\ trySent = <<>>
    /\ tryCopied = <<>>
    /\ visible = <<>>
    /\ svSpec = DocOfKinds("absent", "absent", "absent")
    /\ svMounted = <<>>
    /\ svPending = <<>>
    /\ svClicks = 0

NextGroup == GroupByCategory /\ UNCHANGED <<catVars, refVars, loadVars, uiVars, urlVars,
                                            slugVars, tryVars, filterVars, svVars>>

SpecGroup == InitSpecGroup /\ [][NextGroup]_vars

\* parseEndpointsWithAvailability on every pair of documents
InitSpecPairs ==
    /\ catPc = "unused"
    /\ catPath = <<>>
    /\ catTags = <<>>
    /\ catResult = <<>>
    /\ refSpec = DocOfKinds("absent", "absent", "absent")
    /\ refParts = <<>>
    /\ ref = <<>>
    /\ refResult = NullValue
    /\ refPc = "unused"
    /\ docsRequested = 2
    /\ served = <<EmptyDoc, EmptyDoc>>
    /\ fetchSt = <<"unrequested", "unrequested">>
    /\ firstFailed = 0
    /\ loadPc = "unused"
    /\ errorsRaised = 0
    /\ view = "none"
    /\ spec \in DocsOfPairs
    /\ endpoints = <<>>
    /\ categories = <<>>
    /\ normPc = "start"
    /\ stableSpec \in DocsOfPairs
    /\ page = InitialPage
    /\ cards = <<>>
    /\ tryIt = <<>>
    /\ userActions = 0
    /\ urlEndpoint = [path |-> <<>>, operation |-> UiOperation(<<>>, FALSE)]
    /\ urlParams = <<>>
    /\ urlResult = <<>>
    /\ urlPc = "unused"
    /\ slugText = <<>>
    /\ slugResults = <<>>
    /\ tryEndpoint = [path |-> <<>>, operation |-> UiOperation(<<>>, FALSE)]
    /\ tryCard = InitialCard
    /\ trySent = <<>>
    /\ tryCopied = <<>>
    /\ visible = <<>>
    /\ svSpec = DocOfKinds("absent", "absent", "absent")
    /\ svMounted = <<>>
    /\ svPending = <<>>
    /\ svClicks = 0

NextPairs ==
    \/ ParseEndpointsWithAvailability /\ UNCHANGED <<catVars, refVars, loadVars, uiVars, urlVars,
            slugVars, tryVars, filterVars, svVars>>
    \/ GroupByCategory /\ UNCHANGED <<catVars, refVars, loadVars, uiVars, urlVars,
                                      slugVars, tryVars, filterVars, svVars>>

SpecPairs == InitSpecPairs /\ [][NextPairs]_vars

\* resolveRef on every document and reference
InitSpecRef ==
    /\ catPc = "unused"
    /\ catPath = <<>>
    /\ catTags = <<>>
    /\ catResult = <<>>
    /\ spec = EmptyDoc
    /\ endpoints = <<>>
    /\ categories = <<>>
    /\ normPc = "unused"
    /\ stableSpec = EmptyDoc
    /\ docsRequested = 1
    /\ served = <<EmptyDoc, EmptyDoc>>
    /\ fetchSt = <<"unrequested", "unrequested">>
    /\ firstFailed = 0
    /\ loadPc = "unused"
    /\ errorsRaised = 0
    /\ view = "none"
    /\ refSpec \in RefDocs
    /\ refParts \in RefPartSeqs
    /\ ref \in { prefix \o Join(refParts, <<"/">>) : prefix \in RefPrefixes }
    /\ refResult = NullValue
    /\ refPc = "called"
    /\ page = InitialPage
    /\ cards = <<>>
    /\ tryIt = <<>>
    /\ userActions = 0
    /\ urlEndpoint = [path |-> <<>>, operation |-> UiOperation(<<>>, FALSE)]
    /\ urlParams = <<>>
    /\ urlResult = <<>>
    /\ urlPc = "unused"
    /\ slugText = <<>>
    /\ slugResults = <<>>
    /\ tryEndpoint = [path |-> <<>>, operation |-> UiOperation(<<>>, FALSE)]
    /\ tryCard = InitialCard
    /\ trySent = <<>>
    /\ tryCopied = <<>>
    /\ visible = <<>>
    /\ svSpec = DocOfKinds("absent", "absent", "absent")
    /\ svMounted = <<>>
    /\ svPending = <<>>
    /\ svClicks = 0

NextRef == ResolveRef /\ UNCHANGED <<catVars, normVars, loadVars, uiVars, urlVars,
                                     slugVars, tryVars, filterVars, svVars>>

SpecRef == InitSpecRef /\ [][NextRef]_vars

\* Home, asked for one document or for two
InitSpecHome ==
    /\ catPc = "unused"
    /\ catPath = <<>>
    /\ catTags = <<>>
    /\ catResult = <<>>
    /\ refSpec = DocOfKinds("absent", "absent", "absent")
    /\ refParts = <<>>
    /\ ref = <<>>
    /\ refResult = NullValue
    /\ refPc = "unused"
    /\ spec = EmptyDoc
    /\ endpoints = <<>>
    /\ categories = <<>>
    /\ normPc = "unloaded"
    /\ stableSpec = EmptyDoc
    /\ docsRequested \in {1, 2}
    /\ served \in [1..2 -> DocsServed]
    /\ fetchSt = [i \in 1..2 |-> IF i <= docsRequested THEN "pending" ELSE "unrequested"]
    /\ firstFailed = 0
    /\ loadPc = "pending"
    /\ errorsRaised = 0
    /\ view = "none"
    /\ page = InitialPage
    /\ cards = <<>>
    /\ tryIt = <<>>
    /\ userActions = 0
    /\ urlEndpoint = [path |-> <<>>, operation |-> UiOperation(<<>>, FALSE)]
    /\ urlParams = <<>>
    /\ urlResult = <<>>
    /\ urlPc = "unused"
    /\ slugText = <<>>
    /\ slugResults = <<>>
    /\ tryEndpoint = [path |-> <<>>, operation |-> UiOperation(<<>>, FALSE)]
    /\ tryCard = InitialCard
    /\ trySent = <<>>
    /\ tryCopied = <<>>
    /\ visible = <<>>
    /\ svSpec = DocOfKinds("absent", "absent", "absent")
    /\ svMounted = <<>>
    /\ svPending = <<>>
    /\ svClicks = 0

NextHome ==
    \/ \E i \in 1..2 : FetchResponds(i) /\ UNCHANGED <<catVars, normVars, refVars, uiVars, urlVars,
            slugVars, tryVars, filterVars, svVars>>
    \/ \E i \in 1..2 : FetchRejects(i) /\ UNCHANGED <<catVars, normVars, refVars, uiVars, urlVars,
            slugVars, tryVars, filterVars, svVars>>
    \/ \E i \in 1..2 : JsonResolves(i) /\ UNCHANGED <<catVars, normVars, refVars, uiVars, urlVars,
            slugVars, tryVars, filterVars, svVars>>
    \/ \E i \in 1..2 : JsonRejects(i) /\ UNCHANGED <<catVars, normVars, refVars, uiVars, urlVars,
            slugVars, tryVars, filterVars, svVars>>
    \/ AwaitFetch /\ UNCHANGED <<catVars, refVars, uiVars, urlVars,
                                 slugVars, tryVars, filterVars, svVars>>
    \/ AwaitBothFetches /\ UNCHANGED <<catVars, refVars, uiVars, urlVars,
                                       slugVars, tryVars, filterVars, svVars>>
    \/ ParseEndpoints /\ UNCHANGED <<catVars, refVars, loadVars, uiVars, urlVars,
                                     slugVars, tryVars, filterVars, svVars>>
    \/ ParseEndpointsWithAvailability /\ UNCHANGED <<catVars, refVars, loadVars, uiVars, urlVars,
            slugVars, tryVars, filterVars, svVars>>
    \/ GroupByCategory /\ UNCHANGED <<catVars, refVars, loadVars, uiVars, urlVars,
                                      slugVars, tryVars, filterVars, svVars>>
    \/ RenderDocs /\ UNCHANGED <<catVars, normVars, refVars, uiVars, urlVars,
                                 slugVars, tryVars, filterVars, svVars>>
    \/ RenderError /\ UNCHANGED <<catVars, normVars, refVars, uiVars, urlVars,
                                  slugVars, tryVars, filterVars, svVars>>

SpecHome == InitSpecHome /\ [][NextHome]_vars

\* DocsPage as Home renders it from one document, and the user acting on it
InitSpecDocs ==
    /\ catPc = "unused"
    /\ catPath = <<>>
    /\ catTags = <<>>
    /\ catResult = <<>>
    /\ refSpec = DocOfKinds("absent", "absent", "absent")
    /\ refParts = <<>>
    /\ ref = <<>>
    /\ refResult = NullValue
    /\ refPc = "unused"
    /\ spec = UiDoc
    /\ endpoints = parseEndpoints(UiDoc).endpoints
    /\ categories = groupByCategory(parseEndpoints(UiDoc).endpoints)
    /\ normPc = "grouped"
    /\ stableSpec = EmptyDoc
    /\ docsRequested = 1
    /\ served = <<UiDoc, EmptyDoc>>
    /\ fetchSt = <<"parsed", "unrequested">>
    /\ firstFailed = 0
    /\ loadPc = "loaded"
    /\ errorsRaised = 0
    /\ view = "docs"
    /\ page = InitialPage
    /\ cards = Reconcile(<<>>, RenderedKeys(groupByCategory(parseEndpoints(UiDoc).endpoints),
                                            InitialPage))
    /\ tryIt = [k \in RenderedKeys(groupByCategory(parseEndpoints(UiDoc).endpoints),
                                    InitialPage) |->
                    [inFlight |-> <<>>, orphans |-> 0]]
    /\ userActions = 0
    /\ urlEndpoint = [path |-> <<>>, operation |-> UiOperation(<<>>, FALSE)]
    /\ urlParams = <<>>
    /\ urlResult = <<>>
    /\ urlPc = "unused"
    /\ slugText = <<>>
    /\ slugResults = <<>>
    /\ tryEndpoint = [path |-> <<>>, operation |-> UiOperation(<<>>, FALSE)]
    /\ tryCard = InitialCard
    /\ trySent = <<>>
    /\ tryCopied = <<>>
    /\ visible = <<>>
    /\ svSpec = DocOfKinds("absent", "absent", "absent")
    /\ svMounted = <<>>
    /\ svPending = <<>>
    /\ svClicks = 0

NextDocs ==
    \/ \E text \in UiInputs.search : SetSearch(text) /\ UNCHANGED <<catVars, normVars, refVars, loadVars, urlVars,
            slugVars, tryVars, filterVars, svVars>>
    \/ \E method \in UiInputs.methods : ToggleMethod(method) /\ UNCHANGED <<catVars, normVars, refVars, loadVars, urlVars,
            slugVars, tryVars, filterVars, svVars>>
    \/ \E name \in UiInputs.categories : SetSelectedCategory(name) /\ UNCHANGED <<catVars, normVars, refVars, loadVars, urlVars,
            slugVars, tryVars, filterVars, svVars>>
    \/ \E a \in UiInputs.availabilities : ToggleAvailability(a) /\ UNCHANGED <<catVars, normVars, refVars, loadVars, urlVars,
            slugVars, tryVars, filterVars, svVars>>
    \/ ClearFilters /\ UNCHANGED <<catVars, normVars, refVars, loadVars, urlVars,
                                   slugVars, tryVars, filterVars, svVars>>
    \/ \E k \in DOMAIN tryIt : OnToggle(k) /\ UNCHANGED <<catVars, normVars, refVars, loadVars, urlVars,
            slugVars, tryVars, filterVars, svVars>>
    \/ \E k \in DOMAIN tryIt, tab \in UiInputs.tabs :
          SetActiveTab(k, tab) /\ UNCHANGED <<catVars, normVars, refVars, loadVars, urlVars,
                                              slugVars, tryVars, filterVars, svVars>>
    \/ \E k \in DOMAIN tryIt, name \in UiInputs.paramNames, value \in UiInputs.paramValues :
          SetRequestParams(k, name, value) /\ UNCHANGED <<catVars, normVars, refVars, loadVars, urlVars,
                  slugVars, tryVars, filterVars, svVars>>
    \/ \E k \in DOMAIN tryIt, text \in UiInputs.bodies :
          SetRequestBody(k, text) /\ UNCHANGED <<catVars, normVars, refVars, loadVars, urlVars,
                                                 slugVars, tryVars, filterVars, svVars>>
    \/ \E k \in DOMAIN tryIt, text \in UiInputs.tokens :
          SetAuthToken(k, text) /\ UNCHANGED <<catVars, normVars, refVars, loadVars, urlVars,
                                               slugVars, tryVars, filterVars, svVars>>
    \/ \E k \in DOMAIN tryIt : CopyCurl(k) /\ UNCHANGED <<catVars, normVars, refVars, loadVars, urlVars,
            slugVars, tryVars, filterVars, svVars>>
    \/ \E k \in DOMAIN tryIt : CopiedTimeout(k) /\ UNCHANGED <<catVars, normVars, refVars, loadVars, urlVars,
            slugVars, tryVars, filterVars, svVars>>
    \/ \E k \in DOMAIN tryIt : SendRequest(k) /\ UNCHANGED <<catVars, normVars, refVars, loadVars, urlVars,
            slugVars, tryVars, filterVars, svVars>>
    \/ \E k \in DOMAIN tryIt : \E i \in 1..Len(tryIt[k].inFlight), status \in UiInputs.statuses :
          TryItResponds(k, i, status) /\ UNCHANGED <<catVars, normVars, refVars, loadVars, urlVars,
                  slugVars, tryVars, filterVars, svVars>>
    \/ \E k \in DOMAIN tryIt : \E i \in 1..Len(tryIt[k].inFlight), isJson \in BOOLEAN :
          TryItBodyRead(k, i, isJson) /\ UNCHANGED <<catVars, normVars, refVars, loadVars, urlVars,
                  slugVars, tryVars, filterVars, svVars>>
    \/ \E k \in DOMAIN tryIt : \E i \in 1..Len(tryIt[k].inFlight) :
          TryItRejects(k, i) /\ UNCHANGED <<catVars, normVars, refVars, loadVars, urlVars,
                                            slugVars, tryVars, filterVars, svVars>>
    \/ \E k \in DOMAIN tryIt : OrphanSettles(k) /\ UNCHANGED <<catVars, normVars, refVars, loadVars, urlVars,
            slugVars, tryVars, filterVars, svVars>>

SpecDocs == InitSpecDocs /\ [][NextDocs]_vars

\* line 540: the promise of res.json() of a request of the card with key k
\* settles and sendRequest runs on
BodyIsRead(k) ==
    /\ \E i \in 1..Len(tryIt[k].inFlight), isJson \in BOOLEAN : TryItBodyRead(k, i, isJson)
    /\ UNCHANGED <<catVars, normVars, refVars, loadVars, urlVars,
                   slugVars, tryVars, filterVars, svVars>>

\* DocsPage when the body of every response that has arrived is read, or fails
\* to be read, in the end
SpecDocsLive ==
    SpecDocs /\ \A k \in RenderedKeys(groupByCategory(parseEndpoints(UiDoc).endpoints),
                                       InitialPage) : WF_vars(BodyIsRead(k))

\* buildUrl on every endpoint and every requestParams
InitSpecUrl ==
    /\ catPc = "unused"
    /\ catPath = <<>>
    /\ catTags = <<>>
    /\ catResult = <<>>
    /\ spec = EmptyDoc
    /\ endpoints = <<>>
    /\ categories = <<>>
    /\ normPc = "unused"
    /\ stableSpec = EmptyDoc
    /\ refSpec = DocOfKinds("absent", "absent", "absent")
    /\ refParts = <<>>
    /\ ref = <<>>
    /\ refResult = NullValue
    /\ refPc = "unused"
    /\ docsRequested = 1
    /\ served = <<EmptyDoc, EmptyDoc>>
    /\ fetchSt = <<"unrequested", "unrequested">>
    /\ firstFailed = 0
    /\ loadPc = "unused"
    /\ errorsRaised = 0
    /\ view = "none"
    /\ page = InitialPage
    /\ cards = <<>>
    /\ tryIt = <<>>
    /\ userActions = 0
    /\ urlEndpoint \in UrlEndpoints
    /\ urlParams \in UrlRequestParams
    /\ urlResult = <<>>
    /\ urlPc = "called"
    /\ slugText = <<>>
    /\ slugResults = <<>>
    /\ tryEndpoint = [path |-> <<>>, operation |-> UiOperation(<<>>, FALSE)]
    /\ tryCard = InitialCard
    /\ trySent = <<>>
    /\ tryCopied = <<>>
    /\ visible = <<>>
    /\ svSpec = DocOfKinds("absent", "absent", "absent")
    /\ svMounted = <<>>
    /\ svPending = <<>>
    /\ svClicks = 0

NextUrl == BuildUrl /\ UNCHANGED <<catVars, normVars, refVars, loadVars, uiVars,
                                   slugVars, tryVars, filterVars, svVars>>

SpecUrl == InitSpecUrl /\ [][NextUrl]_vars

\* slugify on every text
InitSpecSlug ==
    /\ catPc = "unused"
    /\ catPath = <<>>
    /\ catTags = <<>>
    /\ catResult = <<>>
    /\ spec = EmptyDoc
    /\ endpoints = <<>>
    /\ categories = <<>>
    /\ normPc = "unused"
    /\ stableSpec = EmptyDoc
    /\ refSpec = DocOfKinds("absent", "absent", "absent")
    /\ refParts = <<>>
    /\ ref = <<>>
    /\ refResult = NullValue
    /\ refPc = "unused"
    /\ docsRequested = 1
    /\ served = <<EmptyDoc, EmptyDoc>>
    /\ fetchSt = <<"unrequested", "unrequested">>
    /\ firstFailed = 0
    /\ loadPc = "unused"
    /\ errorsRaised = 0
    /\ view = "none"
    /\ page = InitialPage
    /\ cards = <<>>
    /\ tryIt = <<>>
    /\ userActions = 0
    /\ urlEndpoint = [path |-> <<>>, operation |-> UiOperation(<<>>, FALSE)]
    /\ urlParams = <<>>
    /\ urlResult = <<>>
    /\ urlPc = "unused"
    /\ slugText \in SlugTexts
    /\ slugResults = <<>>
    /\ tryEndpoint = [path |-> <<>>, operation |-> UiOperation(<<>>, FALSE)]
    /\ tryCard = InitialCard
    /\ trySent = <<>>
    /\ tryCopied = <<>>
    /\ visible = <<>>
    /\ svSpec = DocOfKinds("absent", "absent", "absent")
    /\ svMounted = <<>>
    /\ svPending = <<>>
    /\ svClicks = 0

NextSlug ==
    Slugify /\ UNCHANGED <<catVars, normVars, refVars, loadVars, uiVars, urlVars,
                           tryVars, filterVars, svVars>>

SpecSlug == InitSpecSlug /\ [][NextSlug]_vars

\* DocsPage on every endpoint list from every filter state: the filter
\* controls, each followed by the render that recomputes the visible list
InitSpecFilter ==
    /\ catPc = "unused"
    /\ catPath = <<>>
    /\ catTags = <<>>
    /\ catResult = <<>>
    /\ spec = EmptyDoc
    /\ endpoints = <<>>
    /\ \E list \in FilterEndpointLists : categories = groupByCategory(list)
    /\ normPc = "grouped"
    /\ stableSpec = EmptyDoc
    /\ refSpec = DocOfKinds("absent", "absent", "absent")
    /\ refParts = <<>>
    /\ ref = <<>>
    /\ refResult = NullValue
    /\ refPc = "unused"
    /\ docsRequested = 1
    /\ served = <<EmptyDoc, EmptyDoc>>
    /\ fetchSt = <<"unrequested", "unrequested">>
    /\ firstFailed = 0
    /\ loadPc = "unused"
    /\ errorsRaised = 0
    /\ view = "none"
    /\ page \in FilterPages
    /\ cards = Reconcile(<<>>, RenderedKeys(categories, page))
    /\ tryIt = [k \in RenderedKeys(categories, page) |->
                    [inFlight |-> <<>>, orphans |-> 0]]
    /\ userActions = 0
    /\ urlEndpoint = [path |-> <<>>, operation |-> UiOperation(<<>>, FALSE)]
    /\ urlParams = <<>>
    /\ urlResult = <<>>
    /\ urlPc = "unused"
    /\ slugText = <<>>
    /\ slugResults = <<>>
    /\ tryEndpoint = [path |-> <<>>, operation |-> UiOperation(<<>>, FALSE)]
    /\ tryCard = InitialCard
    /\ trySent = <<>>
    /\ tryCopied = <<>>
    /\ visible = filteredCategories(categories, page)
    /\ svSpec = DocOfKinds("absent", "absent", "absent")
    /\ svMounted = <<>>
    /\ svPending = <<>>
    /\ svClicks = 0

NextFilter ==
    \/ \E text \in UiInputs.search :
          SetSearch(text) /\ UseMemo
            /\ UNCHANGED <<catVars, normVars, refVars, loadVars, urlVars,
                         slugVars, tryVars, svVars>>
    \/ \E method \in UiInputs.methods :
          ToggleMethod(method) /\ UseMemo
            /\ UNCHANGED <<catVars, normVars, refVars, loadVars, urlVars,
                         slugVars, tryVars, svVars>>
    \/ \E name \in UiInputs.categories :
          SetSelectedCategory(name) /\ UseMemo
            /\ UNCHANGED <<catVars, normVars, refVars, loadVars, urlVars,
                         slugVars, tryVars, svVars>>
    \/ \E a \in UiInputs.availabilities :
          ToggleAvailability(a) /\ UseMemo
            /\ UNCHANGED <<catVars, normVars, refVars, loadVars, urlVars,
                         slugVars, tryVars, svVars>>
    \/ ClearFilters /\ UseMemo
            /\ UNCHANGED <<catVars, normVars, refVars, loadVars, urlVars,
                         slugVars, tryVars, svVars>>

SpecFilter == InitSpecFilter /\ [][NextFilter]_vars

\* the cURL and the Send button of every card
InitSpecTry ==
    /\ catPc = "unused"
    /\ catPath = <<>>
    /\ catTags = <<>>
    /\ catResult = <<>>
    /\ spec = EmptyDoc
    /\ endpoints = <<>>
    /\ categories = <<>>
    /\ normPc = "unused"
    /\ stableSpec = EmptyDoc
    /\ refSpec = DocOfKinds("absent", "absent", "absent")
    /\ refParts = <<>>
    /\ ref = <<>>
    /\ refResult = NullValue
    /\ refPc = "unused"
    /\ docsRequested = 1
    /\ served = <<EmptyDoc, EmptyDoc>>
    /\ fetchSt = <<"unrequested", "unrequested">>
    /\ firstFailed = 0
    /\ loadPc = "unused"
    /\ errorsRaised = 0
    /\ view = "none"
    /\ page = InitialPage
    /\ cards = <<>>
    /\ tryIt = <<>>
    /\ userActions = 0
    /\ urlEndpoint = [path |-> <<>>, operation |-> UiOperation(<<>>, FALSE)]
    /\ urlParams = <<>>
    /\ urlResult = <<>>
    /\ urlPc = "unused"
    /\ slugText = <<>>
    /\ slugResults = <<>>
    /\ tryEndpoint \in TryEndpoints
    /\ tryCard \in TryCards
    /\ trySent = <<>>
    /\ tryCopied = <<>>
    /\ visible = <<>>
    /\ svSpec = DocOfKinds("absent", "absent", "absent")
    /\ svMounted = <<>>
    /\ svPending = <<>>
    /\ svClicks = 0

NextTry ==
    \/ ClickCopyCurl /\ UNCHANGED <<catVars, normVars, refVars, loadVars, uiVars, urlVars,
                                    slugVars, filterVars, svVars>>
    \/ ClickSend /\ UNCHANGED <<catVars, normVars, refVars, loadVars, uiVars, urlVars,
                                slugVars, filterVars, svVars>>

SpecTry == InitSpecTry /\ [][NextTry]_vars

\* SchemaView rendered for the schema A of a document, and the clicks on the
\* buttons of its references
InitSpecSchema ==
    /\ catPc = "unused"
    /\ catPath = <<>>
    /\ catTags = <<>>
    /\ catResult = <<>>
    /\ spec = EmptyDoc
    /\ endpoints = <<>>
    /\ categories = <<>>
    /\ normPc = "unused"
    /\ stableSpec = EmptyDoc
    /\ refSpec = DocOfKinds("absent", "absent", "absent")
    /\ refParts = <<>>
    /\ ref = <<>>
    /\ refResult = NullValue
    /\ refPc = "unused"
    /\ docsRequested = 1
    /\ served = <<EmptyDoc, EmptyDoc>>
    /\ fetchSt = <<"unrequested", "unrequested">>
    /\ firstFailed = 0
    /\ loadPc = "unused"
    /\ errorsRaised = 0
    /\ view = "none"
    /\ page = InitialPage
    /\ cards = <<>>
    /\ tryIt = <<>>
    /\ userActions = 0
    /\ urlEndpoint = [path |-> <<>>, operation |-> UiOperation(<<>>, FALSE)]
    /\ urlParams = <<>>
    /\ urlResult = <<>>
    /\ urlPc = "unused"
    /\ slugText = <<>>
    /\ slugResults = <<>>
    /\ tryEndpoint = [path |-> <<>>, operation |-> UiOperation(<<>>, FALSE)]
    /\ tryCard = InitialCard
    /\ trySent = <<>>
    /\ tryCopied = <<>>
    /\ visible = <<>>
    /\ svSpec \in SchemaDocs
    /\ svMounted = <<>>
    /\ svPending = <<[place |-> <<>>, schema |-> NodeValue(1), depth |-> 0]>>
    /\ svClicks = 0

\* React renders the next instance; nothing else changes
Renders ==
    RenderSchemaView /\ UNCHANGED <<catVars, normVars, refVars, loadVars, uiVars, urlVars,
                                    slugVars, tryVars, filterVars>>

NextSchema ==
    \/ Renders
    \/ \E place \in DOMAIN svMounted :
          SetExpanded(place) /\ UNCHANGED <<catVars, normVars, refVars, loadVars, uiVars,
                                            urlVars, slugVars, tryVars, filterVars>>

SpecSchema == InitSpecSchema /\ [][NextSchema]_vars

\* React renders what it has to render
SpecSchemaLive == SpecSchema /\ WF_vars(Renders)

(***************************************************************************)
(* The category-derivation rule table, in its listed order                 *)
(***************************************************************************)
GroupKeys == <<P.applications, P.channels, P.guilds>>

GroupSubRules ==
    << <<P.commands, P.entitlements, P.emojis, P.role_connections>>,
       <<P.messages, P.invites, P.pins, P.webhooks, P.threads, P.reactions>>,
       <<P.members, P.roles, P.bans, P.emojis, P.stickers, P.scheduled_events,
         P.audit_log, P.integrations, P.webhooks, P.voice_states, P.onboarding,
         P.welcome_screen>> >>

TopLevelRules ==
    <<P.users, P.voice, P.webhooks, P.invites, P.stickers, P.stage_instances,
      P.oauth2, P.gateway, P.interactions>>

RECURSIVE FirstListedFrom(_, _, _)
FirstListedFrom(path, keys, i) ==
    IF i > Len(keys) THEN 0
    ELSE IF Includes(path, keys[i]) THEN i
    ELSE FirstListedFrom(path, keys, i + 1)

\* the index of the first listed keyword the path contains, 0 when it contains none
FirstListed(path, keys) == FirstListedFrom(path, keys, 1)

\* the path made of the keywords of the first listed rule the path matches and of
\* nothing else; <<>> when the path matches no rule of the table
DecidingRule(path) ==
    LET g == FirstListed(path, GroupKeys)
    IN  IF g # 0
        THEN LET s == FirstListed(path, GroupSubRules[g])
             IN  IF s # 0 THEN GroupKeys[g] \o GroupSubRules[g][s] ELSE GroupKeys[g]
        ELSE LET t == FirstListed(path, TopLevelRules)
             IN  IF t # 0 THEN TopLevelRules[t] ELSE <<>>

ApplicationsNames ==
    { C.Application_Commands, C.Monetization, C.Application_Emojis,
      C.Role_Connections, C.Applications }

ChannelsNames ==
    { C.Messages, C.Invites, C.Pins, C.Webhooks, C.Threads, C.Reactions, C.Channels }

GuildsNames ==
    { C.Guild_Members, C.Roles, C.Moderation, C.Emojis, C.Stickers,
      C.Scheduled_Events, C.Audit_Log, C.Integrations, C.Webhooks, C.Voice,
      C.Onboarding, C.Welcome_Screen, C.Guilds }

TopLevelNames ==
    { C.Users, C.Voice, C.Webhooks, C.Invites, C.Stickers, C.Stage_Instances,
      C.OAuth2, C.Gateway, C.Interactions }

\* the call has returned and the operation carried no tag
TaglessReturned ==
    /\ catPc = "returned"
    /\ (catTags = <<>> \/ catTags[1] = <<>>)

(***************************************************************************)
(* C6                                                                      *)
(***************************************************************************)
\* C6: an operation whose tag list is non-empty gets its first tag as category,
\* whatever rules its path matches.
C6_FirstTagDecides ==
    (catPc = "returned" /\ catTags # <<>> /\ catTags[1] # <<>>)
        => catResult = Head(catTags[1])

\* a tagged operation on a path that every group rule matches
C6_Witness ==
    /\ catPc = "returned"
    /\ catTags = << <<T_Bar, T_Foo>> >>
    /\ Includes(catPath, P.guilds)
    /\ Includes(catPath, P.members)
    /\ catResult = T_Bar

(***************************************************************************)
(* C7                                                                      *)
(***************************************************************************)
\* the first listed rule decides: the category of a tagless path is the category
\* of the first listed rule it matches
FirstMatchDecides ==
    TaglessReturned
        => LET rule == DecidingRule(catPath)
           IN  rule # <<>> => catResult = getCategoryFromPath(rule, <<>>)

\* C7 as claimed: the first listed rule decides; a path containing /applications
\* never gets a Channels-, Guilds- or top-level category, and a path containing
\* /channels and /guilds never gets a category of the Guilds group.
C7_Original ==
    /\ FirstMatchDecides
    /\ (TaglessReturned /\ Includes(catPath, P.applications))
        => catResult \notin (ChannelsNames \cup GuildsNames \cup TopLevelNames)
    /\ (TaglessReturned /\ Includes(catPath, P.channels) /\ Includes(catPath, P.guilds))
        => catResult \notin GuildsNames

\* C7 amended: the first listed rule decides; a path containing /applications
\* never gets a Channels-, Guilds- or top-level category, and a path containing
\* /channels and /guilds never gets a category that only the Guilds group names
\* (Webhooks, which the Channels group names too, it can get).
C7_RuleOrder ==
    /\ FirstMatchDecides
    /\ (TaglessReturned /\ Includes(catPath, P.applications))
        => /\ catResult \in ApplicationsNames
           /\ catResult \notin (ChannelsNames \cup GuildsNames \cup TopLevelNames)
    /\ (TaglessReturned /\ ~Includes(catPath, P.applications)
            /\ Includes(catPath, P.channels) /\ Includes(catPath, P.guilds))
        => /\ catResult \in ChannelsNames
           /\ catResult \notin (GuildsNames \ ChannelsNames)

\* a tagless path with /channels, /guilds and a Guilds sub-rule gets Channels
C7_Witness ==
    /\ TaglessReturned
    /\ Includes(catPath, P.channels)
    /\ Includes(catPath, P.guilds)
    /\ Includes(catPath, P.members)
    /\ catResult = C.Channels

(***************************************************************************)
(* C8                                                                      *)
(***************************************************************************)
\* the name the rule table's wording gives the sub-rule /members
TableNameOfMembers == <<"M", "e", "m", "b", "e", "r", "s">>

\* the names the rule table gives the Guilds sub-rules, in their listed order
GuildsTableNames ==
    <<TableNameOfMembers, C.Roles, C.Moderation, C.Emojis, C.Stickers, C.Scheduled_Events,
      C.Audit_Log, C.Integrations, C.Webhooks, C.Voice, C.Onboarding,
      C.Welcome_Screen>>

\* the same with the name the code gives /members
GuildsCodeNames == [GuildsTableNames EXCEPT ![1] = C.Guild_Members]

GuildsOnly(path) ==
    /\ Includes(path, P.guilds)
    /\ ~Includes(path, P.applications)
    /\ ~Includes(path, P.channels)

UsersOnly(path) ==
    /\ Includes(path, P.users)
    /\ ~Includes(path, P.applications)
    /\ ~Includes(path, P.channels)
    /\ ~Includes(path, P.guilds)

GuildsNamed(names) ==
    /\ (TaglessReturned /\ GuildsOnly(catPath))
        => LET s == FirstListed(catPath, GroupSubRules[3])
           IN  catResult = IF s # 0 THEN names[s] ELSE C.Guilds
    /\ (TaglessReturned /\ UsersOnly(catPath)) => catResult = C.Users

\* C8 as claimed: a tagless /guilds path gets the table's name of the first listed
\* sub-rule it contains, Members for /members; a tagless /users path gets Users.
C8_Original == GuildsNamed(GuildsTableNames)

\* C8 amended: the same, with Guild Members the name of /members.
C8_GuildsNames == GuildsNamed(GuildsCodeNames)

\* a tagless /guilds path with /voice-states and /bans gets Moderation
C8_Witness ==
    /\ TaglessReturned
    /\ GuildsOnly(catPath)
    /\ Includes(catPath, P.voice_states)
    /\ Includes(catPath, P.bans)
    /\ catResult = C.Moderation

(***************************************************************************)
(* C9                                                                      *)
(***************************************************************************)
\* path[i..j] is a segment of the path: a maximal run of characters other than /
IsSegment(path, i, j) ==
    /\ i <= j
    /\ \A k \in i..j : path[k] # "/"
    /\ (i = 1 \/ path[i - 1] = "/")
    /\ (j = Len(path) \/ path[j + 1] = "/")

\* C9: a tagless path that matches no rule of the table gets its first non-empty
\* segment as category, and General when it has none.
C9_FirstSegmentOrGeneral ==
    (TaglessReturned /\ DecidingRule(catPath) = <<>>)
        => IF \A k \in 1..Len(catPath) : catPath[k] = "/"
           THEN catResult = C.General
           ELSE \E i, j \in 1..Len(catPath) :
                    /\ IsSegment(catPath, i, j)
                    /\ \A k \in 1..(i - 1) : catPath[k] = "/"
                    /\ catResult = SubSeq(catPath, i, j)

\* a path that starts with two empty segments gets the segment after them
C9_Witness ==
    /\ TaglessReturned
    /\ catPath = T_slash \o T_id
    /\ catResult = <<"{", "i", "d", "}">>

(***************************************************************************)
(* C1                                                                      *)
(***************************************************************************)
U_GET == <<"G", "E", "T">>
U_POST == <<"P", "O", "S", "T">>
U_PUT == <<"P", "U", "T">>
U_DELETE == <<"D", "E", "L", "E", "T", "E">>
U_PATCH == <<"P", "A", "T", "C", "H">>
U_OPTIONS == <<"O", "P", "T", "I", "O", "N", "S">>
U_HEAD == <<"H", "E", "A", "D">>

\* the seven recognized methods: the key of the path item and the verb of the record
RecognizedMethods ==
    { <<M.get, U_GET>>, <<M.post, U_POST>>, <<M.put, U_PUT>>, <<M.delete, U_DELETE>>,
      <<M.patch, U_PATCH>>, <<M.options, U_OPTIONS>>, <<M.head, U_HEAD>> }

\* the records of the list with this path and this verb
RecordsOf(list, path, verb) ==
    { i \in 1..Len(list) : list[i].path = path /\ list[i].method = verb }

\* the operation under the key is present and not null
HasOperation(pathItem, key) ==
    /\ key \in DOMAIN pathItem.members
    /\ pathItem.members[key].kind # "null"

\* C1: parseEndpoints returns exactly one record for each (path, method) whose
\* operation under one of the seven recognized methods is present and not null,
\* and no record for an absent method or for any other key of a path item.
C1_OneRecordPerOperation ==
    normPc \in {"parsed", "grouped"} =>
        /\ \A n \in 1..Len(spec.paths) : \A m \in RecognizedMethods :
              Cardinality(RecordsOf(endpoints, spec.paths[n].path, m[2]))
                = IF HasOperation(spec.paths[n].pathItem, m[1]) THEN 1 ELSE 0
        /\ \A i \in 1..Len(endpoints) :
              \E n \in 1..Len(spec.paths), m \in RecognizedMethods :
                  /\ endpoints[i].path = spec.paths[n].path
                  /\ endpoints[i].method = m[2]

\* a document with every key on one path and a null operation on another, parsed
C1_Witness ==
    /\ normPc = "parsed"
    /\ Len(spec.paths) = 2
    /\ DOMAIN spec.paths[1].pathItem.members = {M.get}
    /\ spec.paths[1].pathItem.members[M.get] = JsonNull
    /\ DOMAIN spec.paths[2].pathItem.members = ItemKeys
    /\ Len(endpoints) = 7

(***************************************************************************)
(* C3                                                                      *)
(***************************************************************************)
\* the number of times x occurs in the list
Occurrences(list, x) == Cardinality({ i \in 1..Len(list) : list[i] = x })

\* C3: the categories groupByCategory returns have pairwise distinct names, the
\* names are the distinct category values of the input, they ascend, and every
\* endpoint of the input is in the list of its own category as often as in the
\* input and in no other list.
C3_GroupsAreThePartition ==
    normPc = "grouped" =>
        /\ \A i, j \in 1..Len(categories) :
              i < j => /\ categories[i].name # categories[j].name
                       /\ LocaleCompare(categories[i].name, categories[j].name) < 0
        /\ { categories[i].name : i \in 1..Len(categories) }
              = { endpoints[i].category : i \in 1..Len(endpoints) }
        /\ \A i \in 1..Len(categories) :
              /\ \A k \in 1..Len(categories[i].endpoints) :
                    categories[i].endpoints[k].category = categories[i].name
              /\ \A e \in EndpointPool :
                    e.category = categories[i].name =>
                        Occurrences(categories[i].endpoints, e) = Occurrences(endpoints, e)

\* a list with one endpoint twice and categories out of order, grouped
C3_Witness ==
    /\ normPc = "grouped"
    /\ Len(endpoints) = 3
    /\ endpoints[1] = endpoints[3]
    /\ endpoints[1].category = C.Users
    /\ endpoints[2].category = <<"a">>
    /\ Len(categories) = 2
    /\ categories[1].name = <<"a">>

(***************************************************************************)
(* C4 and C5                                                               *)
(***************************************************************************)
RECURSIVE KeysExist(_, _, _)
\* each key exists at the position the keys before it lead to, from node id on
KeysExist(doc, id, keys) ==
    \/ keys = <<>>
    \/ /\ doc.nodes[id].kind \in {"object", "array"}
       /\ Head(keys) \in DOMAIN doc.nodes[id].members
       /\ KeysExist(doc, doc.nodes[id].members[Head(keys)], Tail(keys))

RECURSIVE NodeAt(_, _, _)
\* the id of document[k1][k2]...[kn], from node id on
NodeAt(doc, id, keys) ==
    IF keys = <<>> THEN id
    ELSE NodeAt(doc, doc.nodes[id].members[Head(keys)], Tail(keys))

\* the reference is #/k1/k2/.../kn for the keys it was written from
WellFormedRef ==
    /\ refParts # <<>>
    /\ ref = HashSlash \o Join(refParts, <<"/">>)

\* the value is null: no value, or the null of the document
IsNull(doc, value) ==
    \/ value.tag = "null"
    \/ value.tag = "node" /\ doc.nodes[value.id].kind = "null"

\* C4: for a reference #/k1/.../kn whose keys all exist where the walk reaches
\* them, resolveRef returns the very value stored at document[k1]...[kn].
C4_ReturnsTheStoredValue ==
    (refPc = "returned" /\ WellFormedRef /\ KeysExist(refSpec, 0, refParts))
        => refResult = NodeValue(NodeAt(refSpec, 0, refParts))

\* #/components/schemas/User resolved in a document that holds an object there
C4_Witness ==
    /\ refPc = "returned"
    /\ refParts = <<R.components, R.schemas, R.User>>
    /\ ref = HashSlash \o Join(refParts, <<"/">>)
    /\ refSpec.nodes[3].kind = "object"
    /\ refResult = NodeValue(3)

\* C5: resolveRef returns null whenever the reference does not start with #/ or
\* names a key the document does not hold where the walk reaches it.
C5_NullWhenAbsent ==
    /\ (refPc = "returned" /\ ~StartsWith(ref, HashSlash)) => refResult = NullValue
    /\ (refPc = "returned" /\ WellFormedRef /\ ~KeysExist(refSpec, 0, refParts))
        => IsNull(refSpec, refResult)

(***************************************************************************)
(* C2                                                                      *)
(***************************************************************************)
\* the (path, verb) keys of the operations of a document
KeysOf(doc) ==
    { <<doc.paths[x[1]].path, x[2][2]>> :
        x \in { y \in (1..Len(doc.paths)) \X RecognizedMethods :
                  HasOperation(doc.paths[y[1]].pathItem, y[2][1]) } }

\* C2: in two-document mode every (method, path) key of the union of the two
\* documents' operations gives exactly one record, no record has another key,
\* and the availability of a record is both iff its key is in both documents,
\* preview-only iff only in the preview one, stable-only iff only in the stable one.
C2_OneRecordPerKeyOfTheUnion ==
    (docsRequested = 2 /\ normPc \in {"parsed", "grouped"}) =>
        LET previewKeys == KeysOf(spec)
            stableKeys == KeysOf(stableSpec)
        IN  /\ \A key \in previewKeys \cup stableKeys :
                  Cardinality(RecordsOf(endpoints, key[1], key[2])) = 1
            /\ \A i \in 1..Len(endpoints) :
                  LET key == <<endpoints[i].path, endpoints[i].method>>
                  IN  /\ key \in previewKeys \cup stableKeys
                      /\ endpoints[i].availability = "both"
                            <=> key \in previewKeys \cap stableKeys
                      /\ endpoints[i].availability = "preview-only"
                            <=> key \in previewKeys \ stableKeys
                      /\ endpoints[i].availability = "stable-only"
                            <=> key \in stableKeys \ previewKeys

\* two documents that share one operation, each with an operation of its own,
\* the preview one with a null where the stable one has an operation
C2_Witness ==
    /\ docsRequested = 2
    /\ normPc = "parsed"
    /\ \E i, j, k \in 1..Len(endpoints) :
          /\ endpoints[i].availability = "both"
          /\ endpoints[j].availability = "preview-only"
          /\ endpoints[k].availability = "stable-only"
    /\ \E n \in 1..Len(spec.paths) :
          /\ M.get \in DOMAIN spec.paths[n].pathItem.members
          /\ spec.paths[n].pathItem.members[M.get] = JsonNull
          /\ <<spec.paths[n].path, U_GET>> \in KeysOf(stableSpec)

(***************************************************************************)
(* C10                                                                     *)
(***************************************************************************)
\* the fetch answered with a non-success status or rejected
NonSuccessOrRejected(i) == fetchSt[i] \in {"notok", "rejected"}

\* C10: the load is all or nothing.  While a requested fetch is outstanding the
\* load is pending; once a requested fetch has answered with a non-success
\* status or rejected, the load never succeeds, no document reaches the
\* normalizer and the docs are not shown, in whatever order the fetches end; a
\* failed load raised one error; the normalizer only ever runs on the documents
\* of fetches that all succeeded.
C10_AllOrNothing ==
    /\ (\E i \in 1..docsRequested : fetchSt[i] \in {"pending", "body"})
          => /\ loadPc = "pending"
             /\ normPc = "unloaded"
             /\ view = "none"
    /\ (\E i \in 1..docsRequested : NonSuccessOrRejected(i))
          => /\ loadPc \in {"pending", "failed"}
             /\ normPc = "unloaded"
             /\ spec = EmptyDoc /\ stableSpec = EmptyDoc
             /\ view # "docs"
    /\ errorsRaised = IF loadPc = "failed" THEN 1 ELSE 0
    /\ normPc # "unloaded"
          => /\ \A i \in 1..docsRequested : fetchSt[i] = "parsed"
             /\ spec = served[1]
             /\ docsRequested = 2 => stableSpec = served[2]

\* two documents requested, the second fetch rejected before the first one
\* ended with its document: the load failed and the error is shown
C10_Witness ==
    /\ docsRequested = 2
    /\ fetchSt = <<"parsed", "rejected">>
    /\ firstFailed = 2
    /\ loadPc = "failed"
    /\ errorsRaised = 1
    /\ normPc = "unloaded"
    /\ view = "error"

(***************************************************************************)
(* C11                                                                     *)
(***************************************************************************)
\* C11: Home returns the docs UI or the error view.  The docs UI is returned
\* only after every requested fetch succeeded and its body parsed and
\* parseEndpoints and groupByCategory both returned; the error view is returned
\* only for a throw of the try block; a body that is not JSON ends like a failed
\* fetch: the load fails, nothing is parsed and the docs UI is never returned.
C11_DocsOrErrorView ==
    /\ view = "docs"
          => /\ \A i \in 1..docsRequested : fetchSt[i] = "parsed"
             /\ loadPc = "loaded"
             /\ normPc = "grouped"
    /\ view = "error" => (loadPc = "failed" \/ normPc = "threw")
    /\ (\E i \in 1..docsRequested : fetchSt[i] = "badjson")
          => /\ loadPc \in {"pending", "failed"}
             /\ normPc = "unloaded"
             /\ view # "docs"
    /\ loadPc = "failed" => normPc = "unloaded"

\* one document requested, its body was not JSON, the error view is returned
C11_Witness ==
    /\ docsRequested = 1
    /\ fetchSt[1] = "badjson"
    /\ loadPc = "failed"
    /\ view = "error"

(***************************************************************************)
(* C12                                                                     *)
(***************************************************************************)
\* C12: parseEndpoints and groupByCategory never raise, whatever sits under the
\* paths of the document, a null path item included.
C12_NormalizerNeverRaises == normPc # "threw"

(***************************************************************************)
(* C13                                                                     *)
(***************************************************************************)
\* C13: a card never has more than one try-it request in flight: its loading
\* flag is set exactly while it has one, so the disabled Send button lets no
\* second one start, in every interleaving of clicks and completions.
C13_OneRequestInFlight ==
    \A k \in DOMAIN tryIt :
        /\ Len(tryIt[k].inFlight) <= 1
        /\ IF k \in DOMAIN cards
           THEN cards[k].loading <=> Len(tryIt[k].inFlight) = 1
           ELSE tryIt[k].inFlight = <<>>

\* a card whose request got its response and whose body is being read: the card
\* is still loading
C13_Witness ==
    \E k \in DOMAIN cards :
        /\ cards[k].loading
        /\ Len(tryIt[k].inFlight) = 1
        /\ tryIt[k].inFlight[1].phase = "reading"

(***************************************************************************)
(* C14                                                                     *)
(***************************************************************************)
\* the step ends a request of the mounted card k that was in the given phase
EndsRequest(k, phase) ==
    /\ k \in DOMAIN cards /\ k \in DOMAIN cards'
    /\ Len(tryIt[k].inFlight) = 1
    /\ tryIt[k].inFlight[1].phase = phase
    /\ tryIt'[k].inFlight = <<>>

\* the step leaves the page and every card but k as they are
OnlyCardChanges(k) ==
    /\ page' = page
    /\ DOMAIN cards' = DOMAIN cards
    /\ \A j \in DOMAIN cards \ {k} : cards'[j] = cards[j]
    /\ \A j \in DOMAIN tryIt \ {k} : tryIt'[j] = tryIt[j]
    /\ UNCHANGED <<normVars, loadVars>>

\* C14: when the fetch of a card's request rejects, the card's response becomes
\* the record of status 0 with the error payload and its loading flag false, no
\* request is issued in its place, and the page and the other cards stay as
\* they are.
C14_RejectionStaysInTheCard ==
    [][\A k \in DOMAIN tryIt :
          EndsRequest(k, "fetching")
              => /\ cards'[k].response = [status |-> 0, data |-> "error"]
                 /\ ~cards'[k].loading
                 /\ tryIt'[k] = [inFlight |-> <<>>, orphans |-> tryIt[k].orphans]
                 /\ OnlyCardChanges(k)]_vars

\* a card showing the synthetic response of a rejected request, no longer loading
C14_Witness ==
    \E k \in DOMAIN cards :
        /\ cards[k].response = [status |-> 0, data |-> "error"]
        /\ ~cards[k].loading
        /\ tryIt[k].inFlight = <<>>

(***************************************************************************)
(* C15                                                                     *)
(***************************************************************************)
\* C15: when the body of a response has been read, as JSON or not, the card
\* records the status of that response, never the status 0 of the failure path,
\* with the parsed payload or null.
C15_StatusOfTheResponse ==
    [][\A k \in DOMAIN tryIt :
          EndsRequest(k, "reading")
              => /\ cards'[k].response.status = tryIt[k].inFlight[1].status
                 /\ cards'[k].response.status # 0
                 /\ cards'[k].response.data \in {"json", "null"}
                 /\ ~cards'[k].loading]_vars

\* a card showing a 404 response whose body was not JSON
C15_Witness ==
    \E k \in DOMAIN cards :
        /\ cards[k].response = [status |-> 404, data |-> "null"]
        /\ ~cards[k].loading

(***************************************************************************)
(* C16                                                                     *)
(***************************************************************************)
\* C16: a step that mounts and unmounts no card changes the state of at most one
\* card, and a step that changes the state or the requests of one card leaves
\* the state and the requests of every other card as they are.
C16_CardsShareNoState ==
    [][DOMAIN cards' = DOMAIN cards
          => \A k \in DOMAIN cards :
                (cards'[k] # cards[k] \/ tryIt'[k] # tryIt[k])
                    => \A j \in DOMAIN cards \ {k} :
                          /\ cards'[j] = cards[j]
                          /\ tryIt'[j] = tryIt[j]]_vars

\* one card with a token, a parameter value and a response, next to a card
\* still in the state it mounted with
C16_Witness ==
    \E k, j \in DOMAIN cards :
        /\ k # j
        /\ cards[k].authToken # <<>>
        /\ cards[k].response # NoResponse
        /\ cards[j] = InitialCard

(***************************************************************************)
(* C17                                                                     *)
(***************************************************************************)
\* what the user entered into a card, and its last response
Entered(card) ==
    <<card.requestParams, card.authToken, card.requestBody, card.response>>

FiltersOf(pg) ==
    <<pg.search, pg.selectedMethods, pg.selectedCategory, pg.selectedAvailability>>

\* C17: a change of the search text or of a filter ends the lifetime of no card:
\* a card that holds entered values or a response is still mounted after it,
\* with the same values and response.
C17_FiltersKeepCardState ==
    [][FiltersOf(page') # FiltersOf(page)
          => \A k \in DOMAIN cards :
                Entered(cards[k]) # Entered(InitialCard)
                    => /\ k \in DOMAIN cards'
                       /\ Entered(cards'[k]) = Entered(cards[k])]_vars

(***************************************************************************)
(* C18                                                                     *)
(***************************************************************************)
\* C18: after any sequence of toggles at most one rendered card is expanded.
C18_AtMostOneExpanded ==
    Cardinality({ k \in DOMAIN cards : IsExpanded(EndpointOf(categories, k), page) }) <= 1

(***************************************************************************)
(* C19                                                                     *)
(***************************************************************************)
\* C19: when Home rendered DocsPage from one document, no card shows the PREVIEW
\* or the STABLE ONLY badge.
C19_NoBadgeFromOneDocument ==
    (docsRequested = 1 /\ view = "docs")
        => \A k \in DOMAIN cards : Badge(EndpointOf(categories, k)) = "none"

(***************************************************************************)
(* C20                                                                     *)
(***************************************************************************)
\* the URL encoding of the characters a value is written with
UrlEscape ==
    ("a" :> <<"a">>) @@ (" " :> <<"%", "2", "0">>) @@ ("&" :> <<"%", "2", "6">>)
    @@ ("{" :> <<"%", "7", "B">>) @@ ("}" :> <<"%", "7", "D">>) @@ ("d" :> <<"d">>)

UrlEncoded(value) == Flatten([i \in 1..Len(value) |-> UrlEscape[value[i]]])

\* the declared parameters of the endpoint in the given place that have a value
GivenParameters(place) ==
    SelectSeq(urlEndpoint.operation.parameters,
              LAMBDA p : p.in = place /\ urlParams[p.name] # <<>>)

\* the query string the claim describes
ExpectedQuery ==
    LET given == GivenParameters("query")
    IN  IF given = <<>> THEN <<>>
        ELSE <<"?">> \o Join([i \in 1..Len(given) |->
                                 given[i].name \o <<"=">> \o UrlEncoded(urlParams[given[i].name])],
                             <<"&">>)

\* C20: the URL buildUrl returns is the path, with the placeholder segment of
\* every declared path parameter that has a value replaced by the URL-encoded
\* value and every other segment kept where it is, followed by the query string:
\* `?` and the `name=<URL-encoded value>` of the declared query parameters that
\* have a value, in declaration order, joined by `&`; nothing when none has.
C20_BuildUrl ==
    urlPc = "returned" =>
        LET query == ExpectedQuery
            pathPart == SubSeq(urlResult, 1, Len(urlResult) - Len(query))
            got == Split(pathPart, "/")
            segments == Split(urlEndpoint.path, "/")
            given == GivenParameters("path")
        IN  /\ Len(urlResult) >= Len(query)
            /\ urlResult = pathPart \o query
            /\ ~Includes(pathPart, <<"?">>)
            /\ Len(got) = Len(segments)
            /\ \A i \in 1..Len(given) : \A n \in 1..Len(segments) :
                  segments[n] = <<"{">> \o given[i].name \o <<"}">>
                      => got[n] = UrlEncoded(urlParams[given[i].name])
            /\ \A n \in 1..Len(segments) :
                  (Len(segments[n]) = 0 \/ segments[n][1] # "{") => got[n] = segments[n]

\* /a/{b}/c/{d} built with a value of b that reads like the placeholder of d and
\* a query value of characters that need escaping
C20_Witness ==
    /\ urlPc = "returned"
    /\ urlEndpoint.path = UiPaths.a_B_c_D
    /\ urlParams[<<"b">>] = <<"{", "d", "}">>
    /\ urlParams[<<"d">>] = <<"a">>
    /\ urlParams[<<"q">>] = <<"&", " ">>
    /\ urlResult = <<"/", "a", "/", "%", "7", "B", "d", "%", "7", "D", "/", "c", "/", "a",
                     "?", "q", "=", "%", "2", "6", "%", "2", "0">>

C25_GroupingIsStable ==
    normPc = "grouped" =>
        \A i \in 1..Len(categories) :
            /\ categories[i].endpoints =
                  SelectSeq(endpoints, LAMBDA e : e.category = categories[i].name)
            /\ i < Len(categories) =>
                  LocaleCompare(categories[i].name, categories[i + 1].name) < 0

\* two different endpoints of one category with an endpoint of a category of
\* an earlier name between them
C25_Witness ==
    /\ normPc = "grouped"
    /\ Len(endpoints) = 3
    /\ endpoints[1].category = endpoints[3].category
    /\ endpoints[1] # endpoints[3]
    /\ Len(categories) = 2
    /\ categories[1].name = endpoints[2].category
    /\ categories[2].endpoints = <<endpoints[1], endpoints[3]>>

(***************************************************************************)
(* C30                                                                     *)
(***************************************************************************)
\* C30: the URL buildUrl returns still holds the placeholder `{name}` of every
\* declared path parameter of the path for which no value has been entered.
C30_PlaceholderStays ==
    urlPc = "returned" =>
        \A i \in 1..Len(urlEndpoint.operation.parameters) :
            LET p == urlEndpoint.operation.parameters[i]
                placeholder == <<"{">> \o p.name \o <<"}">>
            IN  (/\ p.in = "path"
                 /\ Includes(urlEndpoint.path, placeholder)
                 /\ ParamValue(urlParams, p.name) = <<>>)
                    => Includes(urlResult, placeholder)

(***************************************************************************)
(* C27                                                                     *)
(***************************************************************************)
\* C27: what slugify returns is made of the letters a to z, digits and hyphens
\* only, has no two hyphens next to each other and neither starts nor ends
\* with a hyphen; slugify of what slugify returned is that string again.
C27_SlugShape ==
    /\ \A n \in 1..Len(slugResults) :
          LET slug == slugResults[n]
          IN  /\ \A i \in 1..Len(slug) :
                    \/ \E j \in 1..Len(LowerCaseLetters) : slug[i] = LowerCaseLetters[j]
                    \/ slug[i] \in {"0", "1", "2", "3", "4", "5", "6", "7", "8", "9", "-"}
              /\ \A i \in 1..(Len(slug) - 1) : ~(slug[i] = "-" /\ slug[i + 1] = "-")
              /\ slug # <<>> => slug[1] # "-" /\ slug[Len(slug)] # "-"
    /\ Len(slugResults) = 2 => slugResults[2] = slugResults[1]

\* a text with an upper case letter between runs of other characters, one of
\* them leading, slugified twice
C27_Witness ==
    /\ slugText = <<"/", "B", "-">>
    /\ slugResults = <<<<"b">>, <<"b">>>>

(***************************************************************************)
(* C26                                                                     *)
(***************************************************************************)
\* the text occurs in the string when the case of letters is disregarded
OccursIgnoringCase(string, text) ==
    \E k \in 0..(Len(string) - Len(text)) :
        \A i \in 1..Len(text) : LowerChar(string[k + i]) = LowerChar(text[i])

\* the endpoint matches every filter that is active
MatchesEveryFilter(ep) ==
    /\ page.search # <<>> =>
          \/ OccursIgnoringCase(ep.path, page.search)
          \/ \E field \in {"summary", "operationId"} \cap DOMAIN ep.operation :
                OccursIgnoringCase(ep.operation[field], page.search)
    /\ page.selectedMethods # {} => ep.method \in page.selectedMethods
    /\ page.selectedCategory # <<>> => ep.category = page.selectedCategory
    /\ page.selectedAvailability # "null" =>
          /\ "availability" \in DOMAIN ep
          /\ ep.availability = page.selectedAvailability

\* C26: the visible list is the list of all categories cut down to the
\* endpoints that match every active filter: the matching endpoints in their
\* original order, each under its own category, no category empty; with no
\* filter active it is the list of all categories.
C26_VisibleAreTheMatching ==
    LET all == Flatten([i \in 1..Len(categories) |-> categories[i].endpoints])
        shown == Flatten([i \in 1..Len(visible) |-> visible[i].endpoints])
    IN  /\ shown = SelectSeq(all, MatchesEveryFilter)
        /\ \A i \in 1..Len(visible) :
              /\ visible[i].endpoints # <<>>
              /\ \A k \in 1..Len(visible[i].endpoints) :
                    visible[i].endpoints[k].category = visible[i].name
              /\ \A j \in 1..Len(visible) : i # j => visible[i].name # visible[j].name
        /\ (/\ page.search = <<>>
            /\ page.selectedMethods = {}
            /\ page.selectedCategory = <<>>
            /\ page.selectedAvailability = "null") => visible = categories

\* a search in capitals that matches the path of two endpoints in lower case,
\* with a method filter that leaves one of them, and a category left empty
C26_Witness ==
    /\ Len(categories) = 2
    /\ page.search = <<"M", "E">>
    /\ page.selectedMethods = {<<"P", "O", "S", "T">>}
    /\ userActions > 0
    /\ Len(visible) = 1
    /\ Len(visible[1].endpoints) = 1
    /\ visible[1].endpoints[1].method = <<"P", "O", "S", "T">>

C21_RequestIsAsTyped ==
    trySent # <<>> =>
        LET request == trySent[1]
            sentText == IF request.body = <<>> THEN <<>> ELSE request.body[1]
        IN  /\ request.method = tryEndpoint.method
            /\ Q.contentType \in DOMAIN request.headers
            /\ request.headers[Q.contentType] = Q.json
            /\ (Q.authorization \in DOMAIN request.headers) <=> (tryCard.authToken # <<>>)
            /\ tryCard.authToken # <<>> =>
                    request.headers[Q.authorization] = tryCard.authToken
            /\ DOMAIN request.headers \subseteq {Q.contentType, Q.authorization}
            /\ HasBody(tryEndpoint.operation) => sentText = tryCard.requestBody
            /\ ~HasBody(tryEndpoint.operation) => request.body = <<>>

\* a request with a token that starts with a blank and a body with a quote in
\* it has been sent for an operation that declares a request body
C21_Witness ==
    /\ trySent # <<>>
    /\ HasBody(tryEndpoint.operation)
    /\ tryCard.authToken = <<" ", "t">>
    /\ tryCard.requestBody = <<"'", "t">>
    /\ trySent[1].body = <<tryCard.requestBody>>
    /\ trySent[1].headers[Q.authorization] = <<" ", "t">>

\* the command line that names the method, the URL, the headers and the body of
\* a request
CurlOf(request) ==
    Q.curl \o request.method \o Q.open \o request.url \o Q.close
        \o (IF Q.authorization \in DOMAIN request.headers
            THEN Q.header \o Q.authorization \o Q.sep
                    \o request.headers[Q.authorization] \o Q.close
            ELSE <<>>)
        \o Q.header \o Q.contentType \o Q.sep \o request.headers[Q.contentType] \o Q.close
        \o (IF request.body # <<>> THEN Q.data \o request.body[1] \o Q.quote ELSE <<>>)

\* C22: the copied cURL string is the command line of the request sendRequest
\* issues in the same card state: the same method, the URL of base and buildUrl,
\* the Authorization header in one exactly when in the other and with the same
\* value, Content-Type: application/json, and the body in one exactly when in
\* the other, as the same text between single quotes
C22_CurlIsTheRequest ==
    (trySent # <<>> /\ tryCopied # <<>>) =>
        /\ tryCopied[1] = CurlOf(trySent[1])
        /\ trySent[1].url
             = Q.base \o buildUrl(tryEndpoint.path, tryEndpoint.operation,
                                  tryCard.requestParams)

\* both buttons of a card with a token, parameter values and a body that holds
\* a single quote have been clicked
C22_Witness ==
    /\ trySent # <<>>
    /\ tryCopied # <<>>
    /\ trySent[1].body = << <<"'", " ">> >>
    /\ Q.authorization \in DOMAIN trySent[1].headers
    /\ tryCard.requestParams # <<>>

(***************************************************************************)
(* C23                                                                     *)
(***************************************************************************)
\* the instance was given a schema with a reference, and the document holds no
\* value where the reference points
HasUnresolvedRef(doc, instance) ==
    /\ instance.schema.tag = "node"
    /\ doc.nodes[instance.schema.id].kind = "object"
    /\ J.ref \in OwnKeys(doc, instance.schema.id)
    /\ LET refString == doc.nodes[doc.nodes[instance.schema.id].members[J.ref]].text
       IN  \/ ~StartsWith(refString, HashSlash)
           \/ ~KeysExist(doc, 0, Split(ReplaceFirst(refString, HashSlash, <<>>), "/"))

\* C23: an instance of SchemaView whose reference is unresolved renders the
\* Unresolved placeholder and nothing else, and the instances above it are
\* rendered.
C23_UnresolvedIsContained ==
    \A place \in DOMAIN svMounted :
        HasUnresolvedRef(svSpec, svMounted[place]) =>
            /\ svMounted[place].out = "Unresolved"
            /\ \A n \in 0..(Len(place) - 1) : SubSeq(place, 1, n) \in DOMAIN svMounted

(***************************************************************************)
(* C28                                                                     *)
(***************************************************************************)
\* the number of references followed on the way to a place of the tree
RefHops(place) == Cardinality({i \in 1..Len(place) : place[i][1] = J.ref})

\* the places of the instances rendered and yet to be rendered
PlacesAndDepths ==
    { <<place, svMounted[place].depth>> : place \in DOMAIN svMounted }
        \cup { <<svPending[i].place, svPending[i].depth>> : i \in 1..Len(svPending) }

\* C28: rendering a schema ends, also where the schemas refer to themselves or
\* to each other through $ref, allOf included.  On the way to any instance at
\* most two references are followed, and one more for every click; the child
\* of a reference is one level deeper than the reference and the children of an
\* allOf are as deep as the allOf; before any click no reference at depth 2 or
\* more is expanded; the model never stops a render at its depth limit; and
\* React always comes to have nothing left to render.
C28_RenderingEnds ==
    /\ [](\A pd \in PlacesAndDepths :
            /\ RefHops(pd[1]) <= 2 + svClicks
            /\ RefHops(pd[1]) <= pd[2]
            /\ pd[2] < MaxDepth)
    /\ [](\A place \in DOMAIN svMounted :
            (place # <<>> /\ SubSeq(place, 1, Len(place) - 1) \in DOMAIN svMounted) =>
                LET parent == svMounted[SubSeq(place, 1, Len(place) - 1)]
                    via == place[Len(place)][1]
                IN  /\ via = J.ref => svMounted[place].depth = parent.depth + 1
                    /\ via = J.allOf => svMounted[place].depth = parent.depth)
    /\ [](svClicks = 0 =>
            \A place \in DOMAIN svMounted :
                (svMounted[place].out = "button" /\ svMounted[place].depth >= 2)
                    => ~svMounted[place].expanded)
    /\ <>[](svPending = <<>>)

\* schemas that refer to each other through allOf, rendered, and one click on
\* the reference that started collapsed: the schema below it is rendered at
\* depth 3, after three references, and its own reference is collapsed
C28_Witness ==
    /\ svPending = <<>>
    /\ svClicks = 1
    /\ svMounted[<<>>].out = "allOf"
    /\ \E place \in DOMAIN svMounted :
          /\ RefHops(place) = 3
          /\ svMounted[place].depth = 3
          /\ svMounted[place].out = "allOf"
          /\ \E below \in DOMAIN svMounted :
                /\ IsBelow(below, place)
                /\ svMounted[below].out = "button"
                /\ ~svMounted[below].expanded

====
